---- MODULE Spec2Model ----
(***************************************************************************)
(* Port workflow worker: the step handlers (crane loading / unloading,     *)
(* weighing, storage, truck check-in / check-out), the store operations    *)
(* they call (config/database.py) and the registered tasks that wrap them  *)
(* (flow.py).                                                              *)
(*                                                                         *)
(* Encoding of Python values                                               *)
(*   - a variable set (dict) is a function whose DOMAIN is its key set;    *)
(*     every value is a string, except the value of "weight" (a number);   *)
(*   - None, as the value of a string slot, is the constant None;          *)
(*   - a nullable numeric or timestamp column of the store is a tuple:     *)
(*     <<>> is NULL and <<v>> the value v;                                 *)
(*   - a timestamp is a number of seconds after 2025-10-08 08:00:00; the   *)
(*     clock `now` counts half seconds (the shortest sleep is 0.5 s).      *)
(***************************************************************************)
EXTENDS Integers, Sequences, FiniteSets, TLC

VARIABLES
    container,         \* table container:      container_id -> row
    storage,           \* table storage:        storage_id -> row
    transport_mean,    \* table transport_mean: transportation_id -> row
    process_instance,  \* table process_instance: key -> description
    now,               \* wall clock, in half seconds
    njobs,             \* number of handler invocations so far
    call               \* the invocation in progress / just finished

vars == <<container, storage, transport_mean, process_instance, now, njobs, call>>

tables == <<container, storage, transport_mean>>

----------------------------------------------------------------------------
(* Bounds of the model *)

\* number of handler invocations in one behaviour
MaxJobs == 2

\* number of tracker calls in one behaviour
MaxCalls == 3

----------------------------------------------------------------------------
(* Python values *)

None == "None"

\* truth value of a string-or-None: None and "" are falsy
Truthy(v) == v # None /\ v # ""

EmptyDict == [k \in {} |-> None]

\* variables.get(k, default)
Get(d, k, default) == IF k \in DOMAIN d THEN d[k] ELSE default

\* {**d, **e}: keys of e win
DictMerge(d, e) ==
    [k \in (DOMAIN d) \cup (DOMAIN e) |-> IF k \in DOMAIN e THEN e[k] ELSE d[k]]

\* d without key k
DictDrop(d, k) == [j \in (DOMAIN d) \ {k} |-> d[j]]

\* the suffixes a model string can have after a prefix
IdSuffixes == {"", "1", "101", "202", "9109", "er"}

\* s.startswith(p)
StartsWith(s, p) == \E t \in IdSuffixes : s = p \o t

Digits == <<"0", "1", "2", "3", "4", "5", "6", "7", "8", "9">>

\* the years whose timestamps the model holds: the distance in seconds
\* between a timestamp of these years and 2025-10-08 08:00:00 is an
\* integer of the model
MinYear == 1958
MaxYear == 2092

\* strftime('%Y-%m-%d %H:%M:%S') of the timestamp s seconds after
\* 2025-10-08 08:00:00: the civil date of its day, then the time of day
Strftime(s) ==
    LET fromMidnight == s + 28800
        z == (fromMidnight \div 86400) + 20369 + 719468
        secondOfDay == fromMidnight % 86400
        era == z \div 146097
        doe == z - era * 146097
        yoe == (doe - (doe \div 1460) + (doe \div 36524) - (doe \div 146096)) \div 365
        doy == doe - (365 * yoe + (yoe \div 4) - (yoe \div 100))
        mp == (5 * doy + 2) \div 153
        day == doy - ((153 * mp + 2) \div 5) + 1
        month == IF mp < 10 THEN mp + 3 ELSE mp - 9
        year == yoe + era * 400 + (IF month <= 2 THEN 1 ELSE 0)
        hour == secondOfDay \div 3600
        minute == (secondOfDay % 3600) \div 60
        second == secondOfDay % 60
        Two(n) == Digits[(n \div 10) + 1] \o Digits[(n % 10) + 1]
    IN Two(year \div 100) \o Two(year % 100) \o "-" \o Two(month) \o "-"
          \o Two(day) \o " " \o Two(hour) \o ":" \o Two(minute) \o ":"
          \o Two(second)

\* the store's reading of a string 'YYYY-MM-DD HH:MM:SS' as a timestamp:
\* <<s>>, the seconds after 2025-10-08 08:00:00, or <<>> when the string
\* is no timestamp (the statement then fails). The store takes a day of
\* the calendar, a time of day up to 23:59:60 and 24:00:00
ParseTimestamp(str) ==
    LET IsDigit(i) == \E d \in 1..10 : Digits[d] = SubSeq(str, i, i)
        Digit(i) == (CHOOSE d \in 1..10 : Digits[d] = SubSeq(str, i, i)) - 1
        Num(i, n) == IF n = 2 THEN 10 * Digit(i) + Digit(i + 1)
                     ELSE 1000 * Digit(i) + 100 * Digit(i + 1)
                             + 10 * Digit(i + 2) + Digit(i + 3)
        shaped == /\ Len(str) = 19
                  /\ SubSeq(str, 5, 5) = "-"
                  /\ SubSeq(str, 8, 8) = "-"
                  /\ SubSeq(str, 11, 11) = " "
                  /\ SubSeq(str, 14, 14) = ":"
                  /\ SubSeq(str, 17, 17) = ":"
                  /\ \A i \in {1, 2, 3, 4, 6, 7, 9, 10, 12, 13, 15, 16, 18, 19} :
                        IsDigit(i)
        year == Num(1, 4)
        month == Num(6, 2)
        day == Num(9, 2)
        hour == Num(12, 2)
        minute == Num(15, 2)
        second == Num(18, 2)
        leap == year % 4 = 0 /\ (year % 100 # 0 \/ year % 400 = 0)
        daysInMonth == IF month = 2 THEN (IF leap THEN 29 ELSE 28)
                       ELSE IF month \in {4, 6, 9, 11} THEN 30 ELSE 31
        y == year - (IF month <= 2 THEN 1 ELSE 0)
        era == y \div 400
        yoe == y - era * 400
        doy == ((153 * ((month + 9) % 12) + 2) \div 5) + day - 1
        doe == yoe * 365 + (yoe \div 4) - (yoe \div 100) + doy
        days == era * 146097 + doe - 719468
    IN IF ~shaped THEN <<>>
       ELSE IF /\ year \in MinYear..MaxYear
               /\ month \in 1..12
               /\ day \in 1..daysInMonth
               /\ minute <= 59
               /\ second <= 60
               /\ (hour <= 23 \/ (hour = 24 /\ minute = 0 /\ second = 0))
            THEN <<(days - 20369) * 86400 + (hour - 8) * 3600 + minute * 60 + second>>
            ELSE <<>>

\* the second the clock shows at half-second t
SecondOf(t) == t \div 2

\* datetime.now().strftime(...) / time.strftime(...) at clock t
NowString(t) == Strftime(SecondOf(t))

----------------------------------------------------------------------------
(* Events a handler invocation leaves behind: store calls and stages *)

StoreCall(name) == [type |-> "store", name |-> name]
Stage(name, halfSeconds) == [type |-> "stage", name |-> name, dur |-> halfSeconds]

RECURSIVE Duration(_)
Duration(stages) ==
    IF stages = <<>> THEN 0 ELSE Head(stages).dur + Duration(Tail(stages))

StoreCallsOf(events) ==
    {events[i].name : i \in {j \in 1..Len(events) : events[j].type = "store"}}

StagesOf(events) == {i \in 1..Len(events) : events[i].type = "stage"}

----------------------------------------------------------------------------
(* Store operations (config/database.py).  db is the record of the three   *)
(* entity tables; ok = FALSE is a store call that raises (connection lost, *)
(* pool not initialised), which every operation catches.                   *)

Db(c, s, t) == [container |-> c, storage |-> s, transport_mean |-> t]

NoneData == [found |-> FALSE]

StorageRowsOf(db, cid) == {sid \in DOMAIN db.storage : db.storage[sid].container_id = cid}

TransportRowsOf(db, cid) ==
    {tid \in DOMAIN db.transport_mean : db.transport_mean[tid].container_id = cid}

\* the rows the query of get_container joins for the container, each as
\* <<storage_id, transportation_id>>, with None where a LEFT JOIN finds no
\* row.  The query has no ORDER BY: cursor.fetchone() returns any of them
FirstRows(db, container_id) ==
    (IF StorageRowsOf(db, container_id) = {} THEN {None}
     ELSE StorageRowsOf(db, container_id))
    \X (IF TransportRowsOf(db, container_id) = {} THEN {None}
        ELSE TransportRowsOf(db, container_id))

\* faulty variant: a read that failed gives a row of NULLs, not None
get_container_row_on_failure(db, container_id, ok, first) ==
    IF ok /\ container_id \notin DOMAIN db.container
    THEN NoneData
    ELSE IF ~ok
    THEN [found |-> TRUE, container_id |-> container_id, operation_type |-> None,
          weight |-> <<>>, storage_id |-> None, storage_status |-> None,
          transportation_id |-> None, check_in |-> <<>>, check_out |-> <<>>]
    ELSE LET c == db.container[container_id]
             sid == first[1]
             tid == first[2]
         IN [found |-> TRUE,
             container_id |-> container_id,
             operation_type |-> c.operation_type,
             weight |-> c.weight,
             storage_id |-> sid,
             storage_status |-> IF sid = None THEN None ELSE db.storage[sid].storage_status,
             transportation_id |-> tid,
             check_in |-> IF tid = None THEN <<>> ELSE db.transport_mean[tid].check_in,
             check_out |-> IF tid = None THEN <<>> ELSE db.transport_mean[tid].check_out]

\* the joined row of the container of a variable set on a store that gives
\* the container one storage row and one transport row at most
OnlyRow(db, variables) ==
    LET rows == FirstRows(db, Get(variables, "containerId", None))
    IN CHOOSE first \in rows : rows = {first}

\* get_container: the container row LEFT JOINed with its storage and
\* transport rows, or None (no row, or the read failed); first is the
\* joined row, one of FirstRows, that cursor.fetchone() returns
get_container(db, container_id, ok, first) ==
    IF ~ok \/ container_id \notin DOMAIN db.container
    THEN NoneData
    ELSE LET c == db.container[container_id]
             sid == first[1]
             tid == first[2]
         IN [found |-> TRUE,
             container_id |-> container_id,
             operation_type |-> c.operation_type,
             weight |-> c.weight,
             storage_id |-> sid,
             storage_status |-> IF sid = None THEN None ELSE db.storage[sid].storage_status,
             transportation_id |-> tid,
             check_in |-> IF tid = None THEN <<>> ELSE db.transport_mean[tid].check_in,
             check_out |-> IF tid = None THEN <<>> ELSE db.transport_mean[tid].check_out]

\* faulty variant: the write flips a status that is already the one asked for
update_storage_status_toggle(db, container_id, storage_status, ok) ==
    IF ~ok
    THEN [db |-> db, success |-> FALSE]
    ELSE LET hit == StorageRowsOf(db, container_id)
         IN [db |-> [db EXCEPT !.storage =
                        [sid \in DOMAIN db.storage |->
                            IF sid \in hit
                            THEN [db.storage[sid] EXCEPT !.storage_status =
                                     IF @ = storage_status THEN "incomplete"
                                     ELSE storage_status]
                            ELSE db.storage[sid]]],
             success |-> Cardinality(hit) > 0]

\* update_storage_status: UPDATE storage SET storage_status WHERE container_id
update_storage_status(db, container_id, storage_status, ok) ==
    IF ~ok
    THEN [db |-> db, success |-> FALSE]
    ELSE LET hit == StorageRowsOf(db, container_id)
         IN [db |-> [db EXCEPT !.storage =
                        [sid \in DOMAIN db.storage |->
                            IF sid \in hit
                            THEN [db.storage[sid] EXCEPT !.storage_status = storage_status]
                            ELSE db.storage[sid]]],
             success |-> Cardinality(hit) > 0]

\* faulty variant: a full update, the column not supplied is set to NULL
update_transport_timestamps_full(db, transportation_id, check_in, check_out, ok) ==
    LET setIn == check_in # None
        setOut == check_out # None
    IN IF ~ok THEN [db |-> db, success |-> FALSE]
       ELSE IF ~setIn /\ ~setOut THEN [db |-> db, success |-> FALSE]
       ELSE [db |-> [db EXCEPT !.transport_mean =
                        [tid \in DOMAIN db.transport_mean |->
                            IF tid = transportation_id
                            THEN [check_in |-> IF setIn THEN ParseTimestamp(check_in)
                                               ELSE <<>>,
                                  check_out |-> IF setOut THEN ParseTimestamp(check_out)
                                                ELSE <<>>,
                                  container_id |-> db.transport_mean[tid].container_id,
                                  storage_id |-> db.transport_mean[tid].storage_id]
                            ELSE db.transport_mean[tid]]],
             success |-> transportation_id \in DOMAIN db.transport_mean]

\* update_transport_timestamps: partial UPDATE of check_in / check_out;
\* check_in, check_out are strings or None
update_transport_timestamps(db, transportation_id, check_in, check_out, ok) ==
    LET setIn == check_in # None
        setOut == check_out # None
        bad == \/ (setIn /\ ParseTimestamp(check_in) = <<>>)
               \/ (setOut /\ ParseTimestamp(check_out) = <<>>)
    IN IF ~ok THEN [db |-> db, success |-> FALSE]
       ELSE IF ~setIn /\ ~setOut THEN [db |-> db, success |-> FALSE]
       ELSE IF bad THEN [db |-> db, success |-> FALSE]
       ELSE [db |-> [db EXCEPT !.transport_mean =
                        [tid \in DOMAIN db.transport_mean |->
                            IF tid = transportation_id
                            THEN [check_in |-> IF setIn THEN ParseTimestamp(check_in)
                                               ELSE db.transport_mean[tid].check_in,
                                  check_out |-> IF setOut THEN ParseTimestamp(check_out)
                                                ELSE db.transport_mean[tid].check_out,
                                  container_id |-> db.transport_mean[tid].container_id,
                                  storage_id |-> db.transport_mean[tid].storage_id]
                            ELSE db.transport_mean[tid]]],
             success |-> transportation_id \in DOMAIN db.transport_mean]

----------------------------------------------------------------------------
(* Outcome of a handler invocation *)

\* the handler raised: no output variable set
Raised(error, events, db, elapsed) ==
    [status |-> "raised", error |-> error, result |-> EmptyDict,
     events |-> events, db |-> db, elapsed |-> elapsed]

\* the handler returned the output variable set `result`
Returned(result, events, db, elapsed) ==
    [status |-> "returned", error |-> "", result |-> result,
     events |-> events, db |-> db, elapsed |-> elapsed]

\* faulty variant: the sentinel is not looked for
MissingRequired_no_sentinel(v) == ~Truthy(v)

\* `not x or x == 'N/A'`: the required variable is missing or the sentinel
MissingRequired(v) == ~Truthy(v) \/ v = "N/A"

\* faulty variant: any prefix passes
NotATruck_never(transportation_id) == FALSE

\* `not transportation_id.startswith('truck')`
NotATruck(transportation_id) == ~StartsWith(transportation_id, "truck")

----------------------------------------------------------------------------
(* handlers/crane_operations.py *)

CraneLoadingStages ==
    <<Stage("Positioning crane", 2), Stage("Attaching container", 2),
      Stage("Lifting container", 2), Stage("Moving to target location", 2),
      Stage("Lowering container", 2)>>

CraneUnloadingStages ==
    <<Stage("Positioning crane", 2), Stage("Attaching to container", 2),
      Stage("Lifting container", 2), Stage("Moving to unloading zone", 2),
      Stage("Placing container", 2)>>

\* the validation of both crane handlers: "" when the variables pass
crane_validate(variables) ==
    IF MissingRequired(Get(variables, "containerId", None)) THEN "ValueError"
    ELSE IF MissingRequired(Get(variables, "transportationId", None)) THEN "ValueError"
    ELSE ""

crane_loading_result(variables, timestamp) ==
    DictMerge(variables,
        [craneLoadingStatus |-> "completed",
         craneLoadingTimestamp |-> timestamp,
         craneOperator |-> "CRANE-OP-001",
         containerId |-> Get(variables, "containerId", None),
         transportationId |-> Get(variables, "transportationId", None),
         operationType |-> Get(variables, "operationType", "loading")])

crane_unloading_result(variables, timestamp) ==
    DictMerge(variables,
        [craneUnloadingStatus |-> "completed",
         craneUnloadingTimestamp |-> timestamp,
         craneOperator |-> "CRANE-OP-002",
         unloadingZone |-> "ZONE-A1",
         containerId |-> Get(variables, "containerId", None),
         transportationId |-> Get(variables, "transportationId", None),
         operationType |-> Get(variables, "operationType", "unloading")])

\* faulty variant: the crane marks the container stored, with the
\* update_storage_status the module imports
handle_crane_loading_writes(variables, db, t, fault, first) ==
    IF crane_validate(variables) # ""
    THEN Raised(crane_validate(variables), <<>>, db, 0)
    ELSE LET elapsed == Duration(CraneLoadingStages)
             upd == update_storage_status(db, variables["containerId"], "complete", TRUE)
         IN Returned(crane_loading_result(variables, NowString(t + elapsed)),
                     <<StoreCall("get_container")>> \o CraneLoadingStages,
                     upd.db, elapsed)

\* handle_crane_loading(job_key, variables) at clock t; job_key is only logged
handle_crane_loading(variables, db, t, fault, first) ==
    IF crane_validate(variables) # ""
    THEN Raised(crane_validate(variables), <<>>, db, 0)
    ELSE LET container_data == get_container(db, variables["containerId"], fault # "read", first)
             elapsed == Duration(CraneLoadingStages)
         IN \* an absent container is only logged; the stages run all the same
            Returned(crane_loading_result(variables, NowString(t + elapsed)),
                     <<StoreCall("get_container")>> \o CraneLoadingStages,
                     db, elapsed)

\* faulty variant: the crane refuses a container that is not registered
handle_crane_unloading_strict(variables, db, t, fault, first) ==
    IF crane_validate(variables) # ""
    THEN Raised(crane_validate(variables), <<>>, db, 0)
    ELSE LET container_data == get_container(db, variables["containerId"], fault # "read", first)
             elapsed == Duration(CraneUnloadingStages)
         IN IF ~container_data.found
            THEN Raised("Exception", <<StoreCall("get_container")>>, db, 0)
            ELSE Returned(crane_unloading_result(variables, NowString(t + elapsed)),
                          <<StoreCall("get_container")>> \o CraneUnloadingStages,
                          db, elapsed)

\* handle_crane_unloading(job_key, variables) at clock t
handle_crane_unloading(variables, db, t, fault, first) ==
    IF crane_validate(variables) # ""
    THEN Raised(crane_validate(variables), <<>>, db, 0)
    ELSE LET container_data == get_container(db, variables["containerId"], fault # "read", first)
             elapsed == Duration(CraneUnloadingStages)
         IN Returned(crane_unloading_result(variables, NowString(t + elapsed)),
                     <<StoreCall("get_container")>> \o CraneUnloadingStages,
                     db, elapsed)

----------------------------------------------------------------------------
(* handlers/weighing_operations.py *)

WeighingStages ==
    <<Stage("Positioning container on scale", 2), Stage("Calibrating scale", 1),
      Stage("Measuring weight", 2)>>

\* Standard ISO container max weight (kg)
max_weight == 30480

\* faulty variant: the limit itself is overweight
weight_status_strict(weight) == IF weight < max_weight THEN "OK" ELSE "OVERWEIGHT"

\* 'OK' if weight <= max_weight else 'OVERWEIGHT'
weight_status(weight) == IF weight <= max_weight THEN "OK" ELSE "OVERWEIGHT"

\* the validation of the weighing and storage handlers
container_validate(variables) ==
    IF MissingRequired(Get(variables, "containerId", None)) THEN "ValueError" ELSE ""

\* faulty variant: the operation type is not taken from the variables
weighing_result_unknown_type(variables, weight, timestamp) ==
    DictMerge(variables,
        [weighingStatus |-> "completed",
         weighingTimestamp |-> timestamp,
         weight |-> weight,
         weightUnit |-> "kg",
         weightStatus |-> weight_status(weight),
         scaleId |-> "SCALE-001",
         weighingOperator |-> "WEIGH-OP-001",
         containerId |-> Get(variables, "containerId", None),
         transportationId |-> Get(variables, "transportationId", None),
         operationType |-> "unknown"])

weighing_result(variables, weight, timestamp) ==
    DictMerge(variables,
        [weighingStatus |-> "completed",
         weighingTimestamp |-> timestamp,
         weight |-> weight,
         weightUnit |-> "kg",
         weightStatus |-> weight_status(weight),
         scaleId |-> "SCALE-001",
         weighingOperator |-> "WEIGH-OP-001",
         containerId |-> Get(variables, "containerId", None),
         transportationId |-> Get(variables, "transportationId", None),
         operationType |-> Get(variables, "operationType", "unknown")])

\* handle_weighing(job_key, variables) at clock t
handle_weighing(variables, db, t, fault, first) ==
    IF container_validate(variables) # ""
    THEN Raised(container_validate(variables), <<>>, db, 0)
    ELSE LET container_data == get_container(db, variables["containerId"], fault # "read", first)
             elapsed == Duration(WeighingStages)
             events == <<StoreCall("get_container")>>
         IN IF ~container_data.found
            THEN Raised("Exception", events, db, 0)
            ELSE IF container_data.weight = <<>>
            THEN \* None <= max_weight raises TypeError, after the stages
                 Raised("TypeError", events \o WeighingStages, db, elapsed)
            ELSE Returned(weighing_result(variables, container_data.weight[1],
                                          NowString(t + elapsed)),
                          events \o WeighingStages, db, elapsed)

----------------------------------------------------------------------------
(* handlers/storage_operations.py *)

StorageStages ==
    <<Stage("Processing storage operation", 1),
      Stage("Transporting to storage location", 3),
      Stage("Positioning container", 2), Stage("Securing container", 2),
      Stage("Finalizing storage", 1)>>

\* faulty variant: the handler writes the other status
storage_status_written_incomplete == "incomplete"

\* storage_status = 'complete': the status the storage handler writes
storage_status_written == "complete"

\* faulty variant: the output keeps the storageStatus the job came with
storage_result_status_kept(variables, storage_status, storage_id, timestamp) ==
    DictMerge(variables,
        [storageTimestamp |-> timestamp,
         storageOperator |-> "STORAGE-OP-001",
         storageId |-> storage_id,
         containerId |-> Get(variables, "containerId", None),
         transportationId |-> Get(variables, "transportationId", None),
         operationType |-> Get(variables, "operationType", "unknown")])

\* the result dict of handle_storage
storage_result(variables, storage_status, storage_id, timestamp) ==
    DictMerge(variables,
        [storageStatus |-> storage_status,
         storageTimestamp |-> timestamp,
         storageOperator |-> "STORAGE-OP-001",
         storageId |-> storage_id,
         containerId |-> Get(variables, "containerId", None),
         transportationId |-> Get(variables, "transportationId", None),
         operationType |-> Get(variables, "operationType", "unknown")])

\* faulty variant: the container is looked for only after the stages and the write
handle_storage_late_check(variables, db, t, fault, first) ==
    IF container_validate(variables) # ""
    THEN Raised(container_validate(variables), <<>>, db, 0)
    ELSE LET container_id == variables["containerId"]
             container_data == get_container(db, container_id, fault # "read", first)
             elapsed == Duration(StorageStages)
             upd == update_storage_status(db, container_id, "complete",
                                          fault # "write")
             events == <<StoreCall("get_container")>> \o StorageStages
                           \o <<StoreCall("update_storage_status")>>
         IN IF ~container_data.found
            THEN Raised("Exception", events, upd.db, elapsed)
            ELSE Returned(storage_result(variables, "complete",
                                         container_data.storage_id,
                                         NowString(t + elapsed)),
                          events, upd.db, elapsed)

\* handle_storage(job_key, variables) at clock t
handle_storage(variables, db, t, fault, first) ==
    IF container_validate(variables) # ""
    THEN Raised(container_validate(variables), <<>>, db, 0)
    ELSE LET container_id == variables["containerId"]
             container_data == get_container(db, container_id, fault # "read", first)
             elapsed == Duration(StorageStages)
             upd == update_storage_status(db, container_id, storage_status_written,
                                          fault # "write")
         IN IF ~container_data.found
            THEN Raised("Exception", <<StoreCall("get_container")>>, db, 0)
            ELSE \* a write that matched no row or failed is only logged
                 Returned(storage_result(variables, storage_status_written,
                                         container_data.storage_id,
                                         NowString(t + elapsed)),
                          <<StoreCall("get_container")>> \o StorageStages
                              \o <<StoreCall("update_storage_status")>>,
                          upd.db, elapsed)

----------------------------------------------------------------------------
(* handlers/truck_operations.py *)

TruckCheckinStages ==
    <<Stage("Verifying truck documents", 1), Stage("Inspecting vehicle", 1)>>

TruckCheckoutStages ==
    <<Stage("Verifying cargo documentation", 1), Stage("Final vehicle inspection", 1)>>

\* the validation of both truck handlers
truck_validate(variables) ==
    IF MissingRequired(Get(variables, "containerId", None)) THEN "ValueError"
    ELSE IF MissingRequired(Get(variables, "transportationId", None)) THEN "ValueError"
    ELSE IF NotATruck(variables["transportationId"]) THEN "ValueError"
    ELSE ""

\* faulty variant: a timestamp is minted whatever the job carries
timestamp_or_mint_always(given, t) == NowString(t)

\* `if not check_in: <mint> else: check_in`, minted at clock t
timestamp_or_mint(given, t) == IF ~Truthy(given) THEN NowString(t) ELSE given

\* faulty variant: the output is built without the input variables
truck_checkin_result_fresh(variables, check_in_timestamp) ==
    [checkIn |-> check_in_timestamp,
     truckCheckInStatus |-> "completed",
     truckCheckInOperator |-> "GATE-OP-001",
     containerId |-> Get(variables, "containerId", None),
     transportationId |-> Get(variables, "transportationId", None),
     operationType |-> Get(variables, "operationType", "unknown")]

truck_checkin_result(variables, check_in_timestamp) ==
    DictMerge(variables,
        [checkIn |-> check_in_timestamp,
         truckCheckInStatus |-> "completed",
         truckCheckInOperator |-> "GATE-OP-001",
         containerId |-> Get(variables, "containerId", None),
         transportationId |-> Get(variables, "transportationId", None),
         operationType |-> Get(variables, "operationType", "unknown")])

truck_checkout_result(variables, check_out_timestamp) ==
    DictMerge(variables,
        [checkOut |-> check_out_timestamp,
         truckCheckOutStatus |-> "completed",
         truckCheckOutOperator |-> "GATE-OP-002",
         containerId |-> Get(variables, "containerId", None),
         transportationId |-> Get(variables, "transportationId", None),
         operationType |-> Get(variables, "operationType", "unknown")])

\* faulty variant: a write that fails or matches no row fails the job
handle_truck_checkin_abort(variables, db, t, fault) ==
    IF truck_validate(variables) # ""
    THEN Raised(truck_validate(variables), <<>>, db, 0)
    ELSE LET check_in_timestamp == timestamp_or_mint(Get(variables, "checkIn", None), t)
             elapsed == Duration(TruckCheckinStages)
             upd == update_transport_timestamps(db, variables["transportationId"],
                                                check_in_timestamp, None,
                                                fault # "write")
             events == TruckCheckinStages \o <<StoreCall("update_transport_timestamps")>>
         IN IF upd.success
            THEN Returned(truck_checkin_result(variables, check_in_timestamp),
                          events, upd.db, elapsed)
            ELSE Raised("Exception", events, upd.db, elapsed)

\* handle_truck_checkin(job_key, variables) at clock t
handle_truck_checkin(variables, db, t, fault) ==
    IF truck_validate(variables) # ""
    THEN Raised(truck_validate(variables), <<>>, db, 0)
    ELSE LET check_in_timestamp == timestamp_or_mint(Get(variables, "checkIn", None), t)
             elapsed == Duration(TruckCheckinStages)
             upd == update_transport_timestamps(db, variables["transportationId"],
                                                check_in_timestamp, None,
                                                fault # "write")
         IN Returned(truck_checkin_result(variables, check_in_timestamp),
                     TruckCheckinStages \o <<StoreCall("update_transport_timestamps")>>,
                     upd.db, elapsed)

\* faulty variant: the check-out returns without writing check_out
handle_truck_checkout_unwritten(variables, db, t, fault) ==
    IF truck_validate(variables) # ""
    THEN Raised(truck_validate(variables), <<>>, db, 0)
    ELSE LET check_out_timestamp == timestamp_or_mint(Get(variables, "checkOut", None), t)
             elapsed == Duration(TruckCheckoutStages)
         IN Returned(truck_checkout_result(variables, check_out_timestamp),
                     TruckCheckoutStages, db, elapsed)

\* handle_truck_checkout(job_key, variables) at clock t; the duration
\* between check-in and check-out is only logged
handle_truck_checkout(variables, db, t, fault) ==
    IF truck_validate(variables) # ""
    THEN Raised(truck_validate(variables), <<>>, db, 0)
    ELSE LET check_out_timestamp == timestamp_or_mint(Get(variables, "checkOut", None), t)
             elapsed == Duration(TruckCheckoutStages)
             upd == update_transport_timestamps(db, variables["transportationId"],
                                                None, check_out_timestamp,
                                                fault # "write")
         IN Returned(truck_checkout_result(variables, check_out_timestamp),
                     TruckCheckoutStages \o <<StoreCall("update_transport_timestamps")>>,
                     upd.db, elapsed)

----------------------------------------------------------------------------
(* What the handlers agree on *)

HandlerKinds ==
    {"crane_loading", "crane_unloading", "weighing", "storage",
     "truck_checkin", "truck_checkout"}

\* the variables each handler checks before it does anything else
RequiredVariables(kind) ==
    IF kind \in {"weighing", "storage"} THEN {"containerId"}
    ELSE {"containerId", "transportationId"}

\* the three variables every handler writes back from its input
RoutingVariables == {"containerId", "transportationId", "operationType"}

\* the fields each handler adds to the variable set
OwnResultFields(kind) ==
    CASE kind = "crane_loading" ->
           {"craneLoadingStatus", "craneLoadingTimestamp", "craneOperator"}
      [] kind = "crane_unloading" ->
           {"craneUnloadingStatus", "craneUnloadingTimestamp", "craneOperator",
            "unloadingZone"}
      [] kind = "weighing" ->
           {"weighingStatus", "weighingTimestamp", "weight", "weightUnit",
            "weightStatus", "scaleId", "weighingOperator"}
      [] kind = "storage" ->
           {"storageStatus", "storageTimestamp", "storageOperator", "storageId"}
      [] kind = "truck_checkin" ->
           {"checkIn", "truckCheckInStatus", "truckCheckInOperator"}
      [] kind = "truck_checkout" ->
           {"checkOut", "truckCheckOutStatus", "truckCheckOutOperator"}

----------------------------------------------------------------------------
(* The store before the first job, and the variable sets the engine sends *)

\* container C1001 of the sample data; C1002 registered or not, with a
\* weight around the limit or no weight at all
SeedContainers ==
    {[c \in {"C1001"} |-> [operation_type |-> "loading", weight |-> <<12000>>]]}
    \cup
    {[c \in {"C1001", "C1002"} |->
        IF c = "C1001" THEN [operation_type |-> "loading", weight |-> <<12000>>]
        ELSE [operation_type |-> "unloading", weight |-> w]] :
      w \in {<<30480>>, <<30481>>, <<35000>>, <<>>}}

\* the storage rows of the registered containers; C1001's row may be
\* missing, incomplete or complete
SeedStorage(c) ==
    {[sid \in ({"S001"} \cap s1) \cup (IF "C1002" \in DOMAIN c THEN {"S002"} ELSE {}) |->
        IF sid = "S001" THEN [container_id |-> "C1001", storage_status |-> st]
        ELSE [container_id |-> "C1002", storage_status |-> "incomplete"]] :
      s1 \in {{}, {"S001"}}, st \in {"incomplete", "complete"}}

\* truck101 carries C1001 (row missing, or with none, one or both of its
\* timestamps); ship9109 carries C1002
SeedTransport(c) ==
    {[tid \in t1 \cup (IF "C1002" \in DOMAIN c THEN {"ship9109"} ELSE {}) |->
        IF tid = "truck101"
        THEN [container_id |-> "C1001", storage_id |-> "S001",
              check_in |-> ts[1], check_out |-> ts[2]]
        ELSE [container_id |-> "C1002", storage_id |-> "S002",
              check_in |-> <<>>, check_out |-> <<>>]] :
      t1 \in {{}, {"truck101"}},
      ts \in {<<<<>>, <<>>>>, <<<<0>>, <<>>>>, <<<<0>>, <<1>>>>}}

\* a well-formed variable set
BaseInputs ==
    {[containerId |-> c, transportationId |-> t,
      operationType |-> IF c = "C1001" THEN "loading" ELSE "unloading"] :
      c \in {"C1001", "C1002"}, t \in {"truck101", "ship9109"}}

\* a well-formed variable set, or one with a single variable missing, set
\* to the sentinel or empty, or with one more variable
InputsFrom(b) ==
    {b,
     DictDrop(b, "containerId"),
     [b EXCEPT !.containerId = "N/A"],
     [b EXCEPT !.containerId = ""],
     DictDrop(b, "transportationId"),
     [b EXCEPT !.transportationId = "N/A"],
     DictDrop(b, "operationType"),
     DictMerge(b, [checkIn |-> Strftime(0)]),
     DictMerge(b, [checkIn |-> ""]),
     DictMerge(b, [checkOut |-> Strftime(7200)]),
     DictMerge(b, [weight |-> 5]),
     DictMerge(b, [priority |-> "high"])}

Inputs == UNION {InputsFrom(b) : b \in BaseInputs}

\* what can go wrong in the store during one job: nothing, or the store
\* call of that kind the handler makes raises
ReadFaults == {"none", "read"}
WriteFaults == {"none", "write"}
ReadWriteFaults == {"none", "read", "write"}

NoCall == [status |-> "none"]

TypeOK ==
    /\ now \in Nat
    /\ njobs \in 0..MaxJobs
    /\ call.status \in {"none", "returned", "raised"}

Init ==
    /\ container \in SeedContainers
    /\ storage \in SeedStorage(container)
    /\ transport_mean \in SeedTransport(container)
    /\ process_instance = EmptyDict
    /\ now = 0
    /\ njobs = 0
    /\ call = NoCall

----------------------------------------------------------------------------
(* Handler invocations.  The variable set of a job is one the engine sends *)
(* afresh or, after a job that returned, the output of that job.           *)

JobVariables ==
    IF call.status = "none" THEN Inputs
    ELSE IF call.status = "returned" THEN {call.result}
    ELSE {}

CurrentDb == Db(container, storage, transport_mean)

\* the invocation ran with outcome r; `before` keeps the store as it was
\* when the handler was called and `origin` the variable set the chain of
\* jobs began with
Ran(kind, variables, fault, r) ==
    /\ call' = [kind |-> kind, variables |-> variables, fault |-> fault,
                chained |-> (call.status = "returned"),
                origin |-> IF call.status = "returned" THEN call.origin ELSE variables,
                status |-> r.status, error |-> r.error, result |-> r.result,
                events |-> r.events, before |-> CurrentDb]
    /\ container' = r.db.container
    /\ storage' = r.db.storage
    /\ transport_mean' = r.db.transport_mean
    /\ now' = now + r.elapsed
    /\ njobs' = njobs + 1
    /\ UNCHANGED process_instance

CraneLoading ==
    /\ njobs < MaxJobs
    /\ \E variables \in JobVariables, fault \in ReadFaults :
          \E first \in FirstRows(CurrentDb, Get(variables, "containerId", None)) :
             Ran("crane_loading", variables, fault,
                 handle_crane_loading(variables, CurrentDb, now, fault, first))

CraneUnloading ==
    /\ njobs < MaxJobs
    /\ \E variables \in JobVariables, fault \in ReadFaults :
          \E first \in FirstRows(CurrentDb, Get(variables, "containerId", None)) :
             Ran("crane_unloading", variables, fault,
                 handle_crane_unloading(variables, CurrentDb, now, fault, first))

Weighing ==
    /\ njobs < MaxJobs
    /\ \E variables \in JobVariables, fault \in ReadFaults :
          \E first \in FirstRows(CurrentDb, Get(variables, "containerId", None)) :
             Ran("weighing", variables, fault,
                 handle_weighing(variables, CurrentDb, now, fault, first))

StorageJob ==
    /\ njobs < MaxJobs
    /\ \E variables \in JobVariables, fault \in ReadWriteFaults :
          \E first \in FirstRows(CurrentDb, Get(variables, "containerId", None)) :
             Ran("storage", variables, fault,
                 handle_storage(variables, CurrentDb, now, fault, first))

TruckCheckin ==
    /\ njobs < MaxJobs
    /\ \E variables \in JobVariables, fault \in WriteFaults :
          Ran("truck_checkin", variables, fault,
              handle_truck_checkin(variables, CurrentDb, now, fault))

TruckCheckout ==
    /\ njobs < MaxJobs
    /\ \E variables \in JobVariables, fault \in WriteFaults :
          Ran("truck_checkout", variables, fault,
              handle_truck_checkout(variables, CurrentDb, now, fault))

\* the outcome of the job has gone back to the engine; the worker polls again
JobReported ==
    /\ call.status # "none"
    /\ call' = NoCall
    /\ UNCHANGED <<container, storage, transport_mean, process_instance, now, njobs>>

Next ==
    \/ CraneLoading
    \/ CraneUnloading
    \/ Weighing
    \/ StorageJob
    \/ TruckCheckin
    \/ TruckCheckout
    \/ JobReported

Spec == Init /\ [][Next]_vars

----------------------------------------------------------------------------
(* Properties of the handlers, checked under Spec *)

Called == call.status # "none"

StoreUntouched ==
    /\ container = call.before.container
    /\ storage = call.before.storage
    /\ transport_mean = call.before.transport_mean

\* a required variable of the handler is absent from the input or is "N/A"
RequiredMissing ==
    \E k \in RequiredVariables(call.kind) :
        k \notin DOMAIN call.variables \/ call.variables[k] = "N/A"

\* C2: a handler whose input lacks a required variable, or has it as
\* "N/A", raises the validation error before any store call and any stage
C2_ValidationBeforeStore ==
    (Called /\ RequiredMissing) =>
        /\ call.status = "raised"
        /\ call.error = "ValueError"
        /\ StoreCallsOf(call.events) = {}
        /\ StagesOf(call.events) = {}
        /\ StoreUntouched

\* the storage handler has rejected a containerId of "N/A", and the truck
\* check-out an input without transportationId
C2_Witness ==
    /\ Called
    /\ call.status = "raised"
    /\ \/ /\ call.kind = "storage"
          /\ "containerId" \in DOMAIN call.variables
          /\ call.variables["containerId"] = "N/A"
       \/ /\ call.kind = "truck_checkout"
          /\ "transportationId" \notin DOMAIN call.variables

\* C4: a handler that returns gives back each of containerId,
\* transportationId and operationType its input has, with the value the
\* input has, and along a chain of handlers that return these keep the
\* value the chain began with
C4_RoutingPreserved ==
    (Called /\ call.status = "returned") =>
        \A k \in RoutingVariables :
            /\ k \in DOMAIN call.variables
                  => (k \in DOMAIN call.result /\ call.result[k] = call.variables[k])
            /\ k \in DOMAIN call.origin
                  => (k \in DOMAIN call.result /\ call.result[k] = call.origin[k])

\* a second handler has returned on the output of a first one that
\* was given all three routing variables
C4_Witness ==
    /\ Called
    /\ call.status = "returned"
    /\ call.chained
    /\ call.kind = "weighing"
    /\ RoutingVariables \subseteq DOMAIN call.origin
    /\ call.origin["operationType"] = "unloading"

\* C6: a handler that returns gives back every input key, and every input
\* key that is not one of its own result fields with the value it had
C6_UnknownKeysPassThrough ==
    (Called /\ call.status = "returned") =>
        /\ DOMAIN call.variables \subseteq DOMAIN call.result
        /\ \A k \in (DOMAIN call.variables) \ OwnResultFields(call.kind) :
              call.result[k] = call.variables[k]

\* the truck check-in has returned on an input carrying an unknown key, and
\* a handler on an input carrying the result fields of an earlier one
C6_Witness ==
    /\ Called
    /\ call.status = "returned"
    /\ \/ /\ call.kind = "truck_checkin"
          /\ "priority" \in DOMAIN call.variables
          /\ call.result["priority"] = "high"
       \/ /\ call.kind = "truck_checkin"
          /\ "weighingStatus" \in DOMAIN call.variables

\* C7: the truck handlers reject every transportationId that does not
\* start with "truck", as a validation error, with no store call, no stage
\* and the store as it was
C7_TruckPrefixRequired ==
    (/\ Called
     /\ call.kind \in {"truck_checkin", "truck_checkout"}
     /\ ~StartsWith(Get(call.variables, "transportationId", None), "truck")) =>
        /\ call.status = "raised"
        /\ call.error = "ValueError"
        /\ call.events = <<>>
        /\ StoreUntouched

\* a truck handler has rejected the ship, whose row is in the store
C7_Witness ==
    /\ Called
    /\ call.kind = "truck_checkin"
    /\ Get(call.variables, "transportationId", None) = "ship9109"
    /\ "ship9109" \in DOMAIN transport_mean
    /\ call.status = "raised"

\* the weight column of the job's container before the call: <<w>>, or
\* <<>> when the container is absent or has no weight
StoredWeight ==
    LET cid == Get(call.variables, "containerId", None)
    IN IF cid \in DOMAIN call.before.container
       THEN call.before.container[cid].weight
       ELSE <<>>

\* C8: for an existing container with a numeric weight w, and a store that
\* answers, the weighing handler returns weightStatus 'OK' exactly when
\* w <= 30480 and 'OVERWEIGHT' exactly when w > 30480, and the weight of
\* the output is w whatever weight the input carried
C8_WeightStatus ==
    (/\ Called
     /\ call.kind = "weighing"
     /\ StoredWeight # <<>>
     /\ call.fault = "none") =>
        /\ call.status = "returned"
        /\ call.result["weight"] = StoredWeight[1]
        /\ call.result["weightStatus"] \in {"OK", "OVERWEIGHT"}
        /\ call.result["weightStatus"] = "OK" <=> StoredWeight[1] <= 30480
        /\ call.result["weightStatus"] = "OVERWEIGHT" <=> StoredWeight[1] > 30480

\* the handler has weighed a container of exactly 30480 kg, the input
\* carrying another weight
C8_Witness ==
    /\ Called
    /\ call.kind = "weighing"
    /\ call.status = "returned"
    /\ StoredWeight = <<30480>>
    /\ "weight" \in DOMAIN call.variables
    /\ call.variables["weight"] # call.result["weight"]
    /\ call.result["weightStatus"] = "OK"

\* C9: the weighing and the crane handlers leave the container, storage
\* and transport_mean tables as they were, whether they return or raise
C9_ReadOnlyHandlers ==
    (Called /\ call.kind \in {"weighing", "crane_loading", "crane_unloading"})
        => StoreUntouched

\* the crane has loaded a container whose storage row is incomplete
C9_Witness ==
    /\ Called
    /\ call.kind = "crane_loading"
    /\ call.status = "returned"
    /\ \E sid \in DOMAIN storage :
          /\ storage[sid].container_id = call.variables["containerId"]
          /\ storage[sid].storage_status = "incomplete"

\* the job names a container that the container table does not hold
ContainerAbsent ==
    /\ container_validate(call.variables) = ""
    /\ call.variables["containerId"] \notin DOMAIN call.before.container

\* C10: when the container is absent the weighing and storage handlers
\* raise, return no output, run no stage, and the storage handler issues
\* no storage_status write
C10_AbsentContainerIsFatal ==
    (Called /\ call.kind \in {"weighing", "storage"} /\ ContainerAbsent) =>
        /\ call.status = "raised"
        /\ call.error = "Exception"
        /\ call.result = EmptyDict
        /\ StagesOf(call.events) = {}
        /\ "update_storage_status" \notin StoreCallsOf(call.events)
        /\ storage = call.before.storage

\* the storage handler has been given a container that is not registered
C10_Witness ==
    /\ Called
    /\ call.kind = "storage"
    /\ ContainerAbsent
    /\ call.fault = "none"
    /\ call.status = "raised"

\* the stages among the events, in the order they ran
StageSeq(events) == SelectSeq(events, LAMBDA e : e.type = "stage")

\* the clock when the invocation began
CallStart == now - Duration(StageSeq(call.events))

\* the store before the call with the job's container registered
BeforeWithContainer ==
    LET cid == call.variables["containerId"]
        c == call.before.container
    IN [call.before EXCEPT !.container =
           [x \in (DOMAIN c) \cup {cid} |->
               IF x \in DOMAIN c THEN c[x]
               ELSE [operation_type |-> "loading", weight |-> <<12000>>]]]

\* what the crane handler of the call gives on the store db
CraneOutcomeOn(db) ==
    IF call.kind = "crane_loading"
    THEN handle_crane_loading(call.variables, db, CallStart, "none",
                              OnlyRow(db, call.variables))
    ELSE handle_crane_unloading(call.variables, db, CallStart, "none",
                                OnlyRow(db, call.variables))

\* C11: a crane handler whose input passes the validation returns, after
\* all five stages, with status completed and the routing fields of its
\* input, whether or not the container is registered: its output is the
\* output it gives when the container exists
C11_CraneAbsentContainerNonFatal ==
    (/\ Called
     /\ call.kind \in {"crane_loading", "crane_unloading"}
     /\ crane_validate(call.variables) = "") =>
        /\ call.status = "returned"
        /\ StageSeq(call.events) =
              (IF call.kind = "crane_loading" THEN CraneLoadingStages
               ELSE CraneUnloadingStages)
        /\ call.result[IF call.kind = "crane_loading" THEN "craneLoadingStatus"
                       ELSE "craneUnloadingStatus"] = "completed"
        /\ call.result["containerId"] = call.variables["containerId"]
        /\ call.result["transportationId"] = call.variables["transportationId"]
        /\ call.result = CraneOutcomeOn(BeforeWithContainer).result

\* the crane has unloaded a container that is not registered, the store
\* answering
C11_Witness ==
    /\ Called
    /\ call.kind = "crane_unloading"
    /\ call.status = "returned"
    /\ call.fault = "none"
    /\ call.variables["containerId"] \notin DOMAIN call.before.container
    /\ call.result["craneUnloadingStatus"] = "completed"

\* the storage rows of the job's container in the store db
JobStorageRows(db) == StorageRowsOf(db, Get(call.variables, "containerId", None))

\* C12: for a registered container with a storage row and a store that
\* answers, the storage handler returns and leaves the row 'complete'
\* whatever it was; run on a row already complete it changes nothing, and
\* a second invocation on its output returns and leaves the store as the
\* first left it
C12_StorageIdempotent ==
    (/\ Called
     /\ call.kind = "storage"
     /\ call.fault = "none"
     /\ container_validate(call.variables) = ""
     /\ call.variables["containerId"] \in DOMAIN call.before.container
     /\ JobStorageRows(call.before) # {}) =>
        /\ call.status = "returned"
        /\ \A sid \in JobStorageRows(call.before) :
              storage[sid].storage_status = "complete"
        /\ (\A sid \in JobStorageRows(call.before) :
               call.before.storage[sid].storage_status = "complete")
              => StoreUntouched
        /\ \A first \in FirstRows(CurrentDb, call.result["containerId"]) :
              /\ handle_storage(call.result, CurrentDb, now, "none", first).status
                    = "returned"
              /\ handle_storage(call.result, CurrentDb, now, "none", first).db
                    = CurrentDb

\* the storage handler has run a second time, on the output of its first
\* run, which had completed the row
C12_Witness ==
    /\ Called
    /\ call.kind = "storage"
    /\ call.status = "returned"
    /\ call.fault = "none"
    /\ call.chained
    /\ "storageStatus" \in DOMAIN call.variables
    /\ JobStorageRows(call.before) # {}
    /\ \A sid \in JobStorageRows(call.before) :
          call.before.storage[sid].storage_status = "complete"
    /\ StoreUntouched

\* the variable a gate handler takes its timestamp from, and the column
\* it writes it to
GateKey == IF call.kind = "truck_checkin" THEN "checkIn" ELSE "checkOut"

GateColumn(row) == IF call.kind = "truck_checkin" THEN row.check_in ELSE row.check_out

\* the gate handler's write reached a row: the store answered and the
\* truck of the job has a row
GateWritten ==
    /\ call.fault = "none"
    /\ call.variables["transportationId"] \in DOMAIN call.before.transport_mean

\* C13: a gate handler that returns on an input carrying a time under
\* checkIn (checkOut for the check-out) returns that value and writes it
\* to check_in (check_out); otherwise it returns and writes the timestamp
\* of the moment it was called.  So a check-in run on the output of an
\* earlier check-in changes neither the returned nor the stored value
C13_SuppliedTimestampPreferred ==
    (/\ Called
     /\ call.kind \in {"truck_checkin", "truck_checkout"}
     /\ call.status = "returned") =>
        LET given == Get(call.variables, GateKey, None)
            tid == call.variables["transportationId"]
        IN /\ Truthy(given) =>
                /\ call.result[GateKey] = given
                /\ GateWritten =>
                      GateColumn(transport_mean[tid]) = ParseTimestamp(given)
           /\ ~Truthy(given) =>
                /\ call.result[GateKey] = NowString(CallStart)
                /\ GateWritten =>
                      GateColumn(transport_mean[tid]) = <<SecondOf(CallStart)>>
           /\ (/\ Truthy(given)
               /\ GateWritten
               /\ GateColumn(call.before.transport_mean[tid]) = ParseTimestamp(given))
                 => GateColumn(transport_mean[tid]) =
                        GateColumn(call.before.transport_mean[tid])

\* the check-in has run again on the output of an earlier check-in, at a
\* later second: the returned and the stored check-in are the first run's
C13_Witness ==
    /\ Called
    /\ call.kind = "truck_checkin"
    /\ call.status = "returned"
    /\ call.chained
    /\ "truckCheckInStatus" \in DOMAIN call.variables
    /\ GateWritten
    /\ call.result["checkIn"] = call.variables["checkIn"]
    /\ call.result["checkIn"] # NowString(CallStart)
    /\ call.before.transport_mean[call.variables["transportationId"]].check_in # <<>>
    /\ transport_mean[call.variables["transportationId"]].check_in =
          call.before.transport_mean[call.variables["transportationId"]].check_in

\* row r of a table is as it was but for the fields in `own`
RowKeeps(after, before, own) ==
    \A f \in (DOMAIN before) \ own : after[f] = before[f]

\* C14: no handler adds or removes a row of container, storage or
\* transport_mean or changes a container row; the check-in changes at most
\* check_in of the job's truck, the check-out at most check_out of the
\* job's truck, the storage handler at most storage_status of the rows of
\* the job's container, and the other handlers nothing
C14_WritesOwnFieldOnly ==
    Called =>
        /\ container = call.before.container
        /\ DOMAIN storage = DOMAIN call.before.storage
        /\ DOMAIN transport_mean = DOMAIN call.before.transport_mean
        /\ \A sid \in DOMAIN storage :
              RowKeeps(storage[sid], call.before.storage[sid],
                       IF call.kind = "storage" /\ sid \in JobStorageRows(call.before)
                       THEN {"storage_status"} ELSE {})
        /\ \A tid \in DOMAIN transport_mean :
              RowKeeps(transport_mean[tid], call.before.transport_mean[tid],
                       IF tid # Get(call.variables, "transportationId", None) THEN {}
                       ELSE IF call.kind = "truck_checkin" THEN {"check_in"}
                       ELSE IF call.kind = "truck_checkout" THEN {"check_out"}
                       ELSE {})

\* the check-in has replaced the check_in of a truck that has a check_out,
\* which is still there
C14_Witness ==
    /\ Called
    /\ call.kind = "truck_checkin"
    /\ call.status = "returned"
    /\ GateWritten
    /\ LET tid == call.variables["transportationId"]
       IN /\ call.before.transport_mean[tid].check_out # <<>>
          /\ transport_mean[tid].check_out = call.before.transport_mean[tid].check_out
          /\ transport_mean[tid].check_in # call.before.transport_mean[tid].check_in

\* C15: a check_in or check_out that is set is changed by no job
C15_TimestampsSetOnce ==
    Called =>
        \A tid \in DOMAIN call.before.transport_mean :
            /\ call.before.transport_mean[tid].check_in # <<>>
                  => transport_mean[tid].check_in = call.before.transport_mean[tid].check_in
            /\ call.before.transport_mean[tid].check_out # <<>>
                  => transport_mean[tid].check_out = call.before.transport_mean[tid].check_out

\* C16: no truck has a check_out without a check_in
C16_CheckOutFollowsCheckIn ==
    \A tid \in DOMAIN transport_mean :
        transport_mean[tid].check_out # <<>> => transport_mean[tid].check_in # <<>>

\* what the handler of the given kind gives on the variables, the store db
\* and the clock t
HandlerOutcome(kind, variables, db, t, fault, first) ==
    CASE kind = "crane_loading" -> handle_crane_loading(variables, db, t, fault, first)
      [] kind = "crane_unloading" -> handle_crane_unloading(variables, db, t, fault, first)
      [] kind = "weighing" -> handle_weighing(variables, db, t, fault, first)
      [] kind = "storage" -> handle_storage(variables, db, t, fault, first)
      [] kind = "truck_checkin" -> handle_truck_checkin(variables, db, t, fault)
      [] kind = "truck_checkout" -> handle_truck_checkout(variables, db, t, fault)

\* the write of the job could not change a row: the store call failed, or
\* no row is the job's
WriteMissed ==
    \/ call.fault = "write"
    \/ /\ call.kind = "storage"
       /\ JobStorageRows(call.before) = {}
    \/ /\ call.kind \in {"truck_checkin", "truck_checkout"}
       /\ call.variables["transportationId"] \notin DOMAIN call.before.transport_mean

\* the job got as far as its write: the validation passed and, for the
\* storage handler, the container was read
ReachedWrite ==
    /\ call.kind \in {"storage", "truck_checkin", "truck_checkout"}
    /\ IF call.kind = "storage"
       THEN /\ container_validate(call.variables) = ""
            /\ call.fault # "read"
            /\ call.variables["containerId"] \in DOMAIN call.before.container
       ELSE truck_validate(call.variables) = ""

\* C26: a writing handler whose write fails, or matches no row, raises
\* nothing: it returns, with the output it gives when the write succeeds,
\* the store is as it was, and the store operation reports the failure
\* by returning False
C26_FailedWriteDoesNotAbort ==
    (Called /\ ReachedWrite /\ WriteMissed) =>
        /\ call.status = "returned"
        /\ call.error = ""
        /\ StoreCallsOf(call.events) \cap
              {"update_storage_status", "update_transport_timestamps"} # {}
        /\ LET db == IF call.kind = "storage" THEN call.before
                     ELSE Db(call.before.container, call.before.storage,
                             [tid \in {call.variables["transportationId"]} |->
                                 [container_id |-> call.variables["containerId"],
                                  storage_id |-> None,
                                  check_in |-> <<>>, check_out |-> <<>>]])
           IN call.result =
                 HandlerOutcome(call.kind, call.variables, db, CallStart, "none",
                                OnlyRow(db, call.variables)).result
        /\ StoreUntouched
        /\ ~(IF call.kind = "storage"
             THEN update_storage_status(call.before, call.variables["containerId"],
                                        "complete", call.fault # "write")
             ELSE update_transport_timestamps(call.before,
                                              call.variables["transportationId"],
                                              call.result[GateKey], None,
                                              call.fault # "write")).success

\* the check-in has returned for a truck that has no row, and for a truck
\* that has one although its write failed
C26_Witness ==
    /\ Called
    /\ call.status = "returned"
    /\ \/ /\ call.kind = "truck_checkin"
          /\ call.fault = "none"
          /\ call.variables["transportationId"] \notin DOMAIN call.before.transport_mean
          /\ call.result["truckCheckInStatus"] = "completed"
       \/ /\ call.kind = "truck_checkin"
          /\ call.fault = "write"
          /\ call.variables["transportationId"] \in DOMAIN call.before.transport_mean

----------------------------------------------------------------------------
(* One workflow from end to end: container C1001 on truck101 through the  *)
(* five steps of the loading process, each on the output of the one before *)

\* the stores the workflow can start from: C1001 with its storage row and
\* truck101 with its transport row, whatever their status and timestamps
EndToEndInit ==
    /\ container \in SeedContainers
    /\ storage \in {s \in SeedStorage(container) : "S001" \in DOMAIN s}
    /\ transport_mean \in {t \in SeedTransport(container) : "truck101" \in DOMAIN t}
    /\ process_instance = EmptyDict
    /\ now = 0
    /\ njobs = 0
    /\ call = NoCall

\* the variable sets the workflow can be started with for C1001 on truck101
EndToEndInputs ==
    {v \in InputsFrom([containerId |-> "C1001", transportationId |-> "truck101",
                       operationType |-> "loading"]) :
        truck_validate(v) = ""}

EndToEndCraneLoading ==
    /\ njobs = 0
    /\ \E variables \in EndToEndInputs :
          \E first \in FirstRows(CurrentDb, Get(variables, "containerId", None)) :
             Ran("crane_loading", variables, "none",
                 handle_crane_loading(variables, CurrentDb, now, "none", first))

EndToEndWeighing ==
    /\ njobs = 1
    /\ call.status = "returned"
    /\ \E first \in FirstRows(CurrentDb, Get(call.result, "containerId", None)) :
          Ran("weighing", call.result, "none",
              handle_weighing(call.result, CurrentDb, now, "none", first))

EndToEndStorage ==
    /\ njobs = 2
    /\ call.status = "returned"
    /\ \E first \in FirstRows(CurrentDb, Get(call.result, "containerId", None)) :
          Ran("storage", call.result, "none",
              handle_storage(call.result, CurrentDb, now, "none", first))

EndToEndTruckCheckin ==
    /\ njobs = 3
    /\ call.status = "returned"
    /\ Ran("truck_checkin", call.result, "none",
           handle_truck_checkin(call.result, CurrentDb, now, "none"))

EndToEndTruckCheckout ==
    /\ njobs = 4
    /\ call.status = "returned"
    /\ Ran("truck_checkout", call.result, "none",
           handle_truck_checkout(call.result, CurrentDb, now, "none"))

EndToEndNext ==
    \/ EndToEndCraneLoading
    \/ EndToEndWeighing
    \/ EndToEndStorage
    \/ EndToEndTruckCheckin
    \/ EndToEndTruckCheckout

SpecEndToEnd == EndToEndInit /\ [][EndToEndNext]_vars

\* the store after the five steps: the storage row of C1001 is 'complete'
\* and truck101 has a check_in and a check_out
EndToEndStore ==
    /\ storage["S001"].container_id = "C1001"
    /\ storage["S001"].storage_status = "complete"
    /\ transport_mean["truck101"].check_in # <<>>
    /\ transport_mean["truck101"].check_out # <<>>

\* C27, as stated: after the five steps the final variable set has a
\* weighingStatus of 'OK'
C27_EndToEndAsStated ==
    (njobs = 5) =>
        /\ call.status = "returned"
        /\ EndToEndStore
        /\ Get(call.result, "weighingStatus", None) = "OK"

\* C27: after crane loading, weighing, storage, truck check-in and truck
\* check-out of C1001 on truck101, each run on the output of the one
\* before, the last has returned, the storage row of C1001 is 'complete',
\* truck101 has a check_in and a check_out, and the final variable set has
\* weightStatus 'OK' for the weight 12000, its weighingStatus being
\* 'completed'
C27_EndToEnd ==
    (njobs = 5) =>
        /\ call.kind = "truck_checkout"
        /\ call.status = "returned"
        /\ EndToEndStore
        /\ Get(call.result, "weightStatus", None) = "OK"
        /\ Get(call.result, "weighingStatus", None) = "completed"
        /\ Get(call.result, "weight", 0) = 12000
        /\ Get(call.result, "storageStatus", None) = "complete"
        /\ call.result["containerId"] = "C1001"
        /\ call.result["transportationId"] = "truck101"

\* the five steps have run on a workflow started without timestamps
C27_Witness ==
    /\ njobs = 5
    /\ call.status = "returned"
    /\ call.kind = "truck_checkout"
    /\ "checkIn" \notin DOMAIN call.origin
    /\ "checkOut" \notin DOMAIN call.origin
    /\ {"craneLoadingStatus", "weighingStatus", "storageStatus",
        "truckCheckInStatus", "truckCheckOutStatus"} \subseteq DOMAIN call.result
    /\ transport_mean["truck101"].check_out # <<>>

----------------------------------------------------------------------------
(* Process instance tracker (config/database.py).  A description is the    *)
(* sequence of its "<label>: <value>" parts, which the code joins by ", ". *)

Part(label, value) == [label |-> label, value |-> value]

\* faulty variant: on a key that has a row the new description is appended
insert_process_instance_append(pi, process_instance_key, operation_type, container_id, transportation_id, t, ok) ==
    LET description ==
            <<Part("Started", NowString(t))>>
            \o (IF Truthy(operation_type)
                THEN <<Part("Operation", operation_type)>> ELSE <<>>)
            \o (IF Truthy(container_id)
                THEN <<Part("Container", container_id)>> ELSE <<>>)
            \o (IF Truthy(transportation_id)
                THEN <<Part("Transport", transportation_id)>> ELSE <<>>)
    IN IF ~ok THEN [pi |-> pi, success |-> FALSE]
       ELSE [pi |-> [k \in (DOMAIN pi) \cup {process_instance_key} |->
                        IF k # process_instance_key THEN pi[k]
                        ELSE IF k \in DOMAIN pi THEN pi[k] \o description
                        ELSE description],
             success |-> TRUE]

\* insert_process_instance at clock t: the description built from the
\* fields that are truthy, upserted under the key
insert_process_instance(pi, process_instance_key, operation_type, container_id, transportation_id, t, ok) ==
    LET description ==
            <<Part("Started", NowString(t))>>
            \o (IF Truthy(operation_type)
                THEN <<Part("Operation", operation_type)>> ELSE <<>>)
            \o (IF Truthy(container_id)
                THEN <<Part("Container", container_id)>> ELSE <<>>)
            \o (IF Truthy(transportation_id)
                THEN <<Part("Transport", transportation_id)>> ELSE <<>>)
    IN IF ~ok THEN [pi |-> pi, success |-> FALSE]
       ELSE [pi |-> [k \in (DOMAIN pi) \cup {process_instance_key} |->
                        IF k = process_instance_key THEN description ELSE pi[k]],
             success |-> TRUE]

\* faulty variant: the completion replaces the description
update_process_instance_completion_overwrite(pi, process_instance_key, final_status, t, ok) ==
    IF ~ok THEN [pi |-> pi, success |-> FALSE]
    ELSE IF process_instance_key \in DOMAIN pi
    THEN [pi |-> [pi EXCEPT ![process_instance_key] =
                     <<Part("Ended", NowString(t)), Part("Status", final_status)>>],
          success |-> TRUE]
    ELSE [pi |-> pi, success |-> TRUE]

\* faulty variant: a completion for a key without a row creates the row
update_process_instance_completion_creates(pi, process_instance_key, final_status, t, ok) ==
    IF ~ok THEN [pi |-> pi, success |-> FALSE]
    ELSE [pi |-> [k \in (DOMAIN pi) \cup {process_instance_key} |->
                     (IF k \in DOMAIN pi THEN pi[k] ELSE <<>>)
                     \o (IF k = process_instance_key
                         THEN <<Part("Ended", NowString(t)), Part("Status", final_status)>>
                         ELSE <<>>)],
          success |-> TRUE]

\* update_process_instance_completion at clock t: the existing description
\* with ", Ended: <t>, Status: <final_status>" appended; nothing when the
\* key has no row
update_process_instance_completion(pi, process_instance_key, final_status, t, ok) ==
    IF ~ok THEN [pi |-> pi, success |-> FALSE]
    ELSE IF process_instance_key \in DOMAIN pi
    THEN [pi |-> [pi EXCEPT ![process_instance_key] =
                     @ \o <<Part("Ended", NowString(t)), Part("Status", final_status)>>],
          success |-> TRUE]
    ELSE [pi |-> pi, success |-> TRUE]

----------------------------------------------------------------------------
(* Registered tasks (flow.py): the tracker, then the handler.  r is the     *)
(* outcome of the task's handler on the job's variables.                   *)

\* the start of every task: `if process_instance_key: insert_process_instance(...)`
record_start(pi, process_instance_key, variables, default_type, t, fault) ==
    IF process_instance_key # 0
    THEN insert_process_instance(pi, process_instance_key,
                                 Get(variables, "operationType", default_type),
                                 Get(variables, "containerId", None),
                                 Get(variables, "transportationId", None),
                                 t, fault # "insert").pi
    ELSE pi

StartEvents(process_instance_key) ==
    IF process_instance_key # 0 THEN <<StoreCall("insert_process_instance")>> ELSE <<>>

\* faulty variant: a start that cannot be recorded fails the job
tracked_task_abort(pi, process_instance_key, variables, default_type, t, fault, r) ==
    IF process_instance_key # 0 /\ fault = "insert"
    THEN Raised("Exception", StartEvents(process_instance_key), r.db, 0) @@ [pi |-> pi]
    ELSE [r EXCEPT !.events = StartEvents(process_instance_key) \o @]
            @@ [pi |-> record_start(pi, process_instance_key, variables, default_type, t, fault)]

\* a task that records the start and returns what its handler returns
tracked_task(pi, process_instance_key, variables, default_type, t, fault, r) ==
    [r EXCEPT !.events = StartEvents(process_instance_key) \o @]
        @@ [pi |-> record_start(pi, process_instance_key, variables, default_type, t, fault)]

crane_loading_task(pi, process_instance_key, variables, db, t, fault, first) ==
    tracked_task(pi, process_instance_key, variables, "loading", t, fault,
                 handle_crane_loading(variables, db, t, fault, first))

crane_unloading_task(pi, process_instance_key, variables, db, t, fault, first) ==
    tracked_task(pi, process_instance_key, variables, "unloading", t, fault,
                 handle_crane_unloading(variables, db, t, fault, first))

weighing_task(pi, process_instance_key, variables, db, t, fault, first) ==
    tracked_task(pi, process_instance_key, variables, "unknown", t, fault,
                 handle_weighing(variables, db, t, fault, first))

\* faulty variant: the completion is recorded whether the handler returned
\* or raised
storage_task_always_completes(pi, process_instance_key, variables, db, t, fault, first) ==
    LET started == tracked_task(pi, process_instance_key, variables, "unknown", t, fault,
                                handle_storage(variables, db, t, fault, first))
    IN IF process_instance_key # 0
       THEN [started EXCEPT
                !.pi = update_process_instance_completion(
                           started.pi, process_instance_key, "completed",
                           t + started.elapsed, fault # "completion").pi,
                !.events = @ \o <<StoreCall("update_process_instance_completion")>>]
       ELSE started

\* the storage task also records the completion, once its handler returned
storage_task(pi, process_instance_key, variables, db, t, fault, first) ==
    LET started == tracked_task(pi, process_instance_key, variables, "unknown", t, fault,
                                handle_storage(variables, db, t, fault, first))
    IN IF started.status = "returned" /\ process_instance_key # 0
       THEN [started EXCEPT
                !.pi = update_process_instance_completion(
                           started.pi, process_instance_key, "completed",
                           t + started.elapsed, fault # "completion").pi,
                !.events = @ \o <<StoreCall("update_process_instance_completion")>>]
       ELSE started

truck_checkin_task(pi, process_instance_key, variables, db, t, fault) ==
    tracked_task(pi, process_instance_key, variables, "unknown", t, fault,
                 handle_truck_checkin(variables, db, t, fault))

truck_checkout_task(pi, process_instance_key, variables, db, t, fault) ==
    tracked_task(pi, process_instance_key, variables, "unknown", t, fault,
                 handle_truck_checkout(variables, db, t, fault))

----------------------------------------------------------------------------
(* The worker: jobs of process instances delivered to the registered tasks *)

\* the sample store: C1001 on truck101, C1002 on ship9109, nothing stored
\* yet and no truck through the gate; and C1003 on truck202, a container
\* that has no storage row
TaskInit ==
    /\ container =
          [c \in {"C1001", "C1002", "C1003"} |->
              CASE c = "C1001" -> [operation_type |-> "loading", weight |-> <<12000>>]
                [] c = "C1002" -> [operation_type |-> "unloading", weight |-> <<35000>>]
                [] c = "C1003" -> [operation_type |-> "loading", weight |-> <<8000>>]]
    /\ storage =
          [sid \in {"S001", "S002"} |->
              [container_id |-> IF sid = "S001" THEN "C1001" ELSE "C1002",
               storage_status |-> "incomplete"]]
    /\ transport_mean =
          [tid \in {"truck101", "ship9109", "truck202"} |->
              CASE tid = "truck101" ->
                     [container_id |-> "C1001", storage_id |-> "S001",
                      check_in |-> <<>>, check_out |-> <<>>]
                [] tid = "ship9109" ->
                     [container_id |-> "C1002", storage_id |-> "S002",
                      check_in |-> <<>>, check_out |-> <<>>]
                [] tid = "truck202" ->
                     [container_id |-> "C1003", storage_id |-> None,
                      check_in |-> <<>>, check_out |-> <<>>]]
    /\ process_instance = EmptyDict
    /\ now = 0
    /\ njobs = 0
    /\ call = NoCall

\* the variable sets process instances are started with: the two sample
\* scenarios, the container without a storage row, and ones that lack a
\* variable, carry the sentinel or name a container that is not registered
TaskInputs ==
    {[containerId |-> "C1001", transportationId |-> "truck101", operationType |-> "loading"],
     [containerId |-> "C1002", transportationId |-> "ship9109", operationType |-> "unloading"],
     [containerId |-> "C1003", transportationId |-> "truck202", operationType |-> "loading"],
     [transportationId |-> "truck101", operationType |-> "loading"],
     [containerId |-> "C1001", transportationId |-> "N/A", operationType |-> "loading"],
     [containerId |-> "C9999", transportationId |-> "truck101", operationType |-> "loading"],
     [containerId |-> "C1001", transportationId |-> "truck101"]}

\* job.process_instance_key: two instances, and 0 for a job without one
ProcessInstanceKeys == {0, 1, 2}

\* the next job: of any instance with fresh variables, or the next step of
\* the instance whose job has just returned, on that job's output
NextJobs ==
    IF call.status = "none"
    THEN {[process_instance_key |-> k, variables |-> v] :
             k \in ProcessInstanceKeys, v \in TaskInputs}
    ELSE IF call.status = "returned"
    THEN {[process_instance_key |-> call.process_instance_key, variables |-> call.result]}
    ELSE {}

\* the task ran with outcome r
TaskRan(kind, job, fault, r) ==
    /\ call' = [kind |-> kind, variables |-> job.variables, fault |-> fault,
                process_instance_key |-> job.process_instance_key,
                chained |-> (call.status = "returned"),
                origin |-> IF call.status = "returned" THEN call.origin ELSE job.variables,
                status |-> r.status, error |-> r.error, result |-> r.result,
                events |-> r.events, before |-> CurrentDb,
                before_pi |-> process_instance]
    /\ container' = r.db.container
    /\ storage' = r.db.storage
    /\ transport_mean' = r.db.transport_mean
    /\ process_instance' = r.pi
    /\ now' = now + r.elapsed
    /\ njobs' = njobs + 1

CraneLoadingTask ==
    /\ njobs < MaxJobs
    /\ \E job \in NextJobs, fault \in {"none", "insert", "read"} :
          \E first \in FirstRows(CurrentDb, Get(job.variables, "containerId", None)) :
             TaskRan("crane_loading", job, fault,
                     crane_loading_task(process_instance, job.process_instance_key,
                                        job.variables, CurrentDb, now, fault, first))

CraneUnloadingTask ==
    /\ njobs < MaxJobs
    /\ \E job \in NextJobs, fault \in {"none", "insert", "read"} :
          \E first \in FirstRows(CurrentDb, Get(job.variables, "containerId", None)) :
             TaskRan("crane_unloading", job, fault,
                     crane_unloading_task(process_instance, job.process_instance_key,
                                          job.variables, CurrentDb, now, fault, first))

WeighingTask ==
    /\ njobs < MaxJobs
    /\ \E job \in NextJobs, fault \in {"none", "insert", "read"} :
          \E first \in FirstRows(CurrentDb, Get(job.variables, "containerId", None)) :
             TaskRan("weighing", job, fault,
                     weighing_task(process_instance, job.process_instance_key,
                                   job.variables, CurrentDb, now, fault, first))

StorageTask ==
    /\ njobs < MaxJobs
    /\ \E job \in NextJobs, fault \in {"none", "insert", "read", "write", "completion"} :
          \E first \in FirstRows(CurrentDb, Get(job.variables, "containerId", None)) :
             TaskRan("storage", job, fault,
                     storage_task(process_instance, job.process_instance_key,
                                  job.variables, CurrentDb, now, fault, first))

TruckCheckinTask ==
    /\ njobs < MaxJobs
    /\ \E job \in NextJobs, fault \in {"none", "insert", "write"} :
          TaskRan("truck_checkin", job, fault,
                  truck_checkin_task(process_instance, job.process_instance_key,
                                     job.variables, CurrentDb, now, fault))

TruckCheckoutTask ==
    /\ njobs < MaxJobs
    /\ \E job \in NextJobs, fault \in {"none", "insert", "write"} :
          TaskRan("truck_checkout", job, fault,
                  truck_checkout_task(process_instance, job.process_instance_key,
                                      job.variables, CurrentDb, now, fault))

TaskNext ==
    \/ CraneLoadingTask
    \/ CraneUnloadingTask
    \/ WeighingTask
    \/ StorageTask
    \/ TruckCheckinTask
    \/ TruckCheckoutTask
    \/ JobReported

SpecTask == TaskInit /\ [][TaskNext]_vars

----------------------------------------------------------------------------
(* The tracker on its own: its two operations called with any arguments   *)

\* the arguments the tracker is called with
TrackerKeys == {1, 2}
TrackerOperationTypes == {None, "loading"}
TrackerContainerIds == {"C1001", "C1002"}
TrackerTransportationIds == {None, "truck101"}
FinalStatuses == {"completed", "failed"}

\* a tracker operation has been called at clock `now`; the calls of the
\* model are one second apart
Recorded(kind, key, args, ok, r) ==
    /\ call' = [kind |-> kind, process_instance_key |-> key, args |-> args,
                fault |-> IF ok THEN "none" ELSE "store",
                status |-> "recorded", success |-> r.success,
                before_pi |-> process_instance, at |-> now]
    /\ process_instance' = r.pi
    /\ now' = now + 2
    /\ njobs' = njobs + 1
    /\ UNCHANGED <<container, storage, transport_mean>>

RecordStart ==
    /\ njobs < MaxCalls
    /\ \E key \in TrackerKeys, operation_type \in TrackerOperationTypes,
          container_id \in TrackerContainerIds,
          transportation_id \in TrackerTransportationIds, ok \in BOOLEAN :
          Recorded("insert_process_instance", key,
                   [operation_type |-> operation_type, container_id |-> container_id,
                    transportation_id |-> transportation_id], ok,
                   insert_process_instance(process_instance, key, operation_type,
                                           container_id, transportation_id, now, ok))

RecordCompletion ==
    /\ njobs < MaxCalls
    /\ \E key \in TrackerKeys, final_status \in FinalStatuses, ok \in BOOLEAN :
          Recorded("update_process_instance_completion", key,
                   [final_status |-> final_status], ok,
                   update_process_instance_completion(process_instance, key,
                                                      final_status, now, ok))

TrackerNext ==
    \/ RecordStart
    \/ RecordCompletion

SpecTracker == TaskInit /\ [][TrackerNext]_vars

\* the parts of a description with the given label
PartsLabelled(description, label) ==
    {i \in 1..Len(description) : description[i].label = label}

\* C19: a start recorded under a key leaves one description for the key,
\* the one built from the arguments of that call, as on an empty table:
\* it begins with the call's Started part, has no completion part, keeps
\* nothing of the description the key had, and no other key is touched
C19_RecordStartOverwrites ==
    (/\ call.status = "recorded"
     /\ call.kind = "insert_process_instance"
     /\ call.success) =>
        LET key == call.process_instance_key
        IN /\ DOMAIN process_instance = (DOMAIN call.before_pi) \cup {key}
           /\ \A k \in (DOMAIN call.before_pi) \ {key} :
                 process_instance[k] = call.before_pi[k]
           /\ process_instance[key] =
                 insert_process_instance(EmptyDict, key, call.args.operation_type,
                                         call.args.container_id,
                                         call.args.transportation_id,
                                         call.at, TRUE).pi[key]
           /\ process_instance[key][1] = Part("Started", NowString(call.at))
           /\ PartsLabelled(process_instance[key], "Started") = {1}
           /\ PartsLabelled(process_instance[key], "Ended") = {}
           /\ \A i \in PartsLabelled(process_instance[key], "Container") :
                 process_instance[key][i].value = call.args.container_id

\* a start has been recorded under a key whose description named another
\* container
C19_Witness ==
    /\ call.status = "recorded"
    /\ call.kind = "insert_process_instance"
    /\ call.success
    /\ call.process_instance_key \in DOMAIN call.before_pi
    /\ \E i \in PartsLabelled(call.before_pi[call.process_instance_key], "Container") :
          call.before_pi[call.process_instance_key][i].value # call.args.container_id
    /\ Len(process_instance[call.process_instance_key]) >= 2

\* C20: a completion recorded under a key that has a row leaves the
\* description the key had followed by the parts "Ended: <time of the
\* call>" and "Status: <status>": one more completion suffix than before,
\* and no other key touched
C20_RecordCompletionAppends ==
    (/\ call.status = "recorded"
     /\ call.kind = "update_process_instance_completion"
     /\ call.success
     /\ call.process_instance_key \in DOMAIN call.before_pi) =>
        LET key == call.process_instance_key
            old == call.before_pi[key]
        IN /\ DOMAIN process_instance = DOMAIN call.before_pi
           /\ \A k \in (DOMAIN call.before_pi) \ {key} :
                 process_instance[k] = call.before_pi[k]
           /\ process_instance[key] =
                 old \o <<Part("Ended", NowString(call.at)),
                          Part("Status", call.args.final_status)>>
           /\ SubSeq(process_instance[key], 1, Len(old)) = old
           /\ Cardinality(PartsLabelled(process_instance[key], "Ended"))
                 = Cardinality(PartsLabelled(old, "Ended")) + 1

\* a second completion has been recorded under a key: two suffixes
C20_Witness ==
    /\ call.status = "recorded"
    /\ call.kind = "update_process_instance_completion"
    /\ call.success
    /\ call.process_instance_key \in DOMAIN call.before_pi
    /\ Cardinality(PartsLabelled(process_instance[call.process_instance_key], "Ended")) = 2

\* C21: a completion recorded under a key that has no row leaves the
\* table as it was, no row added and none changed, and, the store
\* answering, reports success
C21_CompletionOfUnknownKeyIsNoOp ==
    (/\ call.status = "recorded"
     /\ call.kind = "update_process_instance_completion"
     /\ call.process_instance_key \notin DOMAIN call.before_pi) =>
        /\ process_instance = call.before_pi
        /\ call.process_instance_key \notin DOMAIN process_instance
        /\ call.fault = "none" => call.success

\* a completion has been recorded for a key without a row while another
\* key has one
C21_Witness ==
    /\ call.status = "recorded"
    /\ call.kind = "update_process_instance_completion"
    /\ call.fault = "none"
    /\ call.success
    /\ call.process_instance_key \notin DOMAIN call.before_pi
    /\ call.before_pi # EmptyDict
    /\ process_instance = call.before_pi

----------------------------------------------------------------------------
(* Properties of the registered tasks, checked under SpecTask *)

\* the completion suffixes of the description of the job's instance
EndedParts(pi) ==
    IF call.process_instance_key \in DOMAIN pi
    THEN PartsLabelled(pi[call.process_instance_key], "Ended")
    ELSE {}

\* C24: a job whose tracker call fails runs its handler all the same: it
\* returns or raises as the handler does on the job's variables, with the
\* handler's output and the handler's effect on the store, and the failed
\* call leaves the description as it was
C24_TrackingIsBestEffort ==
    (Called /\ call.process_instance_key # 0) =>
        LET r == HandlerOutcome(call.kind, call.variables, call.before, CallStart,
                                call.fault, OnlyRow(call.before, call.variables))
        IN /\ call.status = r.status
           /\ call.error = r.error
           /\ call.result = r.result
           /\ CurrentDb = r.db
           /\ call.fault = "insert" =>
                 /\ "insert_process_instance" \in StoreCallsOf(call.events)
                 /\ \/ process_instance = call.before_pi
                    \/ /\ call.kind = "storage"
                       /\ call.status = "returned"
                       /\ Cardinality(EndedParts(process_instance))
                             = Cardinality(EndedParts(call.before_pi)) + 1
           /\ call.fault = "completion" =>
                 EndedParts(process_instance) = {}

\* a storage job returned the handler's output although its completion
\* could not be recorded, and a job although its start could not
C24_Witness ==
    /\ Called
    /\ call.process_instance_key # 0
    /\ call.kind = "storage"
    /\ call.status = "returned"
    /\ call.fault = "completion"
    /\ "update_process_instance_completion" \in StoreCallsOf(call.events)
    /\ call.result["storageStatus"] = "complete"
    /\ EndedParts(process_instance) = {}

\* C25: only a storage job whose handler returned calls the completion
\* update; after any other job of an instance the description has no
\* completion suffix, unless the start could not be recorded and the
\* description is the one the instance had
C25_CompletionOnlyAfterStorage ==
    (Called /\ call.process_instance_key # 0) =>
        /\ "update_process_instance_completion" \in StoreCallsOf(call.events)
              <=> (call.kind = "storage" /\ call.status = "returned")
        /\ ~(call.kind = "storage" /\ call.status = "returned") =>
              \/ EndedParts(process_instance) = {}
              \/ /\ call.fault = "insert"
                 /\ process_instance = call.before_pi

\* a storage job of an instance has raised on a container that is not
\* registered, and left no completion suffix
C25_Witness ==
    /\ Called
    /\ call.process_instance_key # 0
    /\ call.kind = "storage"
    /\ call.status = "raised"
    /\ call.error = "Exception"
    /\ call.process_instance_key \in DOMAIN process_instance
    /\ EndedParts(process_instance) = {}

----------------------------------------------------------------------------
(* Several worker processes on one store.  A worker runs one job at a     *)
(* time; between two statements of its job that reach the store, the      *)
(* statements of the jobs of other workers can run.  Each stage of a      *)
(* handler is a time.sleep of its own; the clock moves by half seconds    *)
(* while a worker sleeps, and the other worker can take a job or run a    *)
(* statement at any of them.  Each worker process has its own pool.       *)

Workers == {1, 2}

\* max_conn of initialize_connection_pool
max_conn == 10

\* faulty variant: the connection is not put back
return_connection_leak(conns) == conns

\* connection_pool.getconn(): one more connection checked out
get_connection(conns) == conns + 1

\* connection_pool.putconn(conn): one connection less checked out
return_connection(conns) == conns - 1

\* a store operation from `conn = get_connection()` to its `finally`:
\* the connections checked out afterwards
connection_bracket(conns) == return_connection(get_connection(conns))

\* faulty variant: the statement works on the tables as the job first saw
\* them and writes them back whole
WriteTarget_snapshot(db, snapshot) == snapshot

\* the tables an UPDATE of a job works on: the store as it is when the
\* statement is issued, whatever the job saw before
WriteTarget(db, snapshot) == db

\* faulty variant: the suffix is appended to the description in the table
description_update_in_place(pi, process_instance_key, existing_desc, suffix) ==
    [pi EXCEPT ![process_instance_key] = @ \o suffix]

\* UPDATE process_instance SET description = <existing_desc + suffix>:
\* the description read before, with the suffix, replaces the one stored
description_update(pi, process_instance_key, existing_desc, suffix) ==
    [pi EXCEPT ![process_instance_key] = existing_desc \o suffix]

\* a worker without a job
IdleWorker ==
    [pc |-> "idle", kind |-> "", variables |-> EmptyDict, key |-> 0,
     fault |-> "none", started_at |-> 0, seq |-> 0, stage |-> 0, wake |-> 0,
     container_data |-> NoneData, timestamp |-> "", existing |-> <<>>,
     end_date |-> "",
     before |-> EmptyDict, status |-> "none", error |-> "",
     result |-> EmptyDict, events |-> <<>>, conns |-> 0, jobs |-> 0]

\* the store of the sample data with a truck for each container, and the
\* description of process instance 1 recorded or not
WorkersInit ==
    /\ container =
          [c \in {"C1001", "C1002"} |->
              IF c = "C1001" THEN [operation_type |-> "loading", weight |-> <<12000>>]
              ELSE [operation_type |-> "unloading", weight |-> <<35000>>]]
    /\ storage =
          [sid \in {"S001", "S002"} |->
              [container_id |-> IF sid = "S001" THEN "C1001" ELSE "C1002",
               storage_status |-> IF sid = "S001" THEN "incomplete" ELSE "complete"]]
    /\ transport_mean =
          [tid \in {"truck101", "truck202"} |->
              [container_id |-> IF tid = "truck101" THEN "C1001" ELSE "C1002",
               storage_id |-> IF tid = "truck101" THEN "S001" ELSE "S002",
               check_in |-> <<>>, check_out |-> <<>>]]
    /\ process_instance \in
          {EmptyDict,
           [k \in {1} |-> <<Part("Started", NowString(0)), Part("Container", "C1001")>>]}
    /\ now = 0
    /\ njobs = 0
    /\ call = [status |-> "workers", worker |-> [w \in Workers |-> IdleWorker]]

\* the variable sets of the jobs: the two containers, each on its truck,
\* one without containerId and one of a container that is not registered
WorkerInputs ==
    {[containerId |-> "C1001", transportationId |-> "truck101", operationType |-> "loading"],
     [containerId |-> "C1002", transportationId |-> "truck202", operationType |-> "unloading"],
     [transportationId |-> "truck101", operationType |-> "loading"],
     [containerId |-> "C9999", transportationId |-> "truck202", operationType |-> "loading"]}

\* the jobs a worker can be given: a task of a process instance (key 0: a
\* job without one), or the completion update called on its own
WorkerJobs ==
    {[kind |-> kind, variables |-> variables, key |-> key, fault |-> fault] :
        kind \in {"weighing", "storage", "truck_checkin", "truck_checkout"},
        variables \in WorkerInputs, key \in {0, 1}, fault \in {"none", "read", "write"}}
    \cup
    {[kind |-> kind, variables |-> variables, key |-> 0, fault |-> fault] :
        kind \in {"crane_loading", "crane_unloading"},
        variables \in WorkerInputs, fault \in {"none", "read"}}
    \cup
    {[kind |-> "completion", variables |-> EmptyDict, key |-> 1, fault |-> fault] :
        fault \in {"none", "completion"}}

\* the handlers that read their container first
ReadingKinds == {"crane_loading", "crane_unloading", "weighing", "storage"}

\* the handlers that write nothing to the store
ReadOnlyKinds == {"crane_loading", "crane_unloading", "weighing"}

\* the faults a job of the kind can meet
FaultApplies(job) ==
    \/ job.fault = "none"
    \/ job.fault = "read" /\ job.kind \in ReadingKinds
    \/ job.fault = "write" /\ job.kind \in {"storage", "truck_checkin", "truck_checkout"}
    \/ job.fault = "completion" /\ job.kind = "completion"

\* the stages of the handler of the kind
StagesFor(kind) ==
    CASE kind = "crane_loading" -> CraneLoadingStages
      [] kind = "crane_unloading" -> CraneUnloadingStages
      [] kind = "weighing" -> WeighingStages
      [] kind = "storage" -> StorageStages
      [] kind = "truck_checkin" -> TruckCheckinStages
      [] kind = "truck_checkout" -> TruckCheckoutStages

\* the validation of the handler of the kind
ValidationFor(kind, variables) ==
    IF kind \in {"crane_loading", "crane_unloading"} THEN crane_validate(variables)
    ELSE IF kind \in {"weighing", "storage"} THEN container_validate(variables)
    ELSE truck_validate(variables)

\* worker w goes on as ws
WorkerBecomes(w, ws) == call' = [call EXCEPT !.worker[w] = ws]

\* the handler of ws logs stage i and calls time.sleep for it at clock t
Sleeping(ws, i, t) ==
    [ws EXCEPT !.pc = "asleep", !.stage = i,
               !.wake = t + StagesFor(ws.kind)[i].dur,
               !.events = @ \o <<StagesFor(ws.kind)[i]>>]

\* a worker takes a job.  A task records the start, then its handler
\* validates the variables; a gate handler takes its timestamp and goes
\* into its stages
BeginJob ==
    /\ njobs < MaxJobs
    /\ \E w \in Workers, job \in WorkerJobs :
          /\ call.worker[w].pc \in {"idle", "done"}
          /\ FaultApplies(job)
          /\ LET base == [IdleWorker EXCEPT
                             !.kind = job.kind, !.variables = job.variables,
                             !.key = job.key, !.fault = job.fault,
                             !.started_at = now, !.seq = njobs + 1,
                             !.before = CurrentDb,
                             !.jobs = call.worker[w].jobs + 1,
                             !.conns = IF job.kind # "completion" /\ job.key # 0
                                       THEN connection_bracket(call.worker[w].conns)
                                       ELSE call.worker[w].conns,
                             !.events = IF job.kind = "completion" THEN <<>>
                                        ELSE StartEvents(job.key)]
                 verdict == ValidationFor(job.kind, job.variables)
             IN IF job.kind = "completion"
                THEN /\ WorkerBecomes(w, [base EXCEPT !.pc = "completing"])
                     /\ UNCHANGED process_instance
                ELSE /\ process_instance' =
                           record_start(process_instance, job.key, job.variables,
                                        "unknown", now, job.fault)
                     /\ WorkerBecomes(w,
                           IF verdict # ""
                           THEN [base EXCEPT !.pc = "done", !.status = "raised",
                                             !.error = verdict]
                           ELSE IF job.kind \in ReadingKinds
                           THEN [base EXCEPT !.pc = "validated"]
                           ELSE Sleeping(
                                   [base EXCEPT
                                       !.timestamp =
                                           timestamp_or_mint(
                                               Get(job.variables,
                                                   IF job.kind = "truck_checkin"
                                                   THEN "checkIn" ELSE "checkOut", None),
                                               now)],
                                   1, now))
    /\ njobs' = njobs + 1
    /\ UNCHANGED <<container, storage, transport_mean, now>>

\* a crane, weighing or storage handler reads its container, and goes
\* into its stages: the weighing and storage handlers when the container
\* is there, the crane handlers in any case
ReadContainer ==
    /\ \E w \in Workers :
          LET ws == call.worker[w]
              read == [ws EXCEPT !.conns = connection_bracket(@),
                                 !.events = @ \o <<StoreCall("get_container")>>]
          IN /\ ws.pc = "validated"
             /\ \E first \in FirstRows(CurrentDb, ws.variables["containerId"]) :
                   LET container_data ==
                          get_container(CurrentDb, ws.variables["containerId"],
                                        ws.fault # "read", first)
                   IN WorkerBecomes(w,
                         IF ~container_data.found /\ ws.kind \in {"weighing", "storage"}
                         THEN [read EXCEPT !.pc = "done", !.status = "raised",
                                           !.error = "Exception"]
                         ELSE Sleeping([read EXCEPT !.container_data = container_data],
                                       1, now))
    /\ UNCHANGED <<container, storage, transport_mean, process_instance, now, njobs>>

\* faulty variant: the handler does not wait for its stages
StagesOver_at_once(ws, t) == TRUE

\* the time.sleep calls of the stages of the job have all returned
StagesOver(ws, t) == ws.stage = Len(StagesFor(ws.kind)) /\ t >= ws.wake

\* the time.sleep of a stage that is not the last returns: the handler
\* logs the next stage and sleeps again
SleepReturns ==
    /\ \E w \in Workers :
          LET ws == call.worker[w]
          IN /\ ws.pc = "asleep"
             /\ ws.stage < Len(StagesFor(ws.kind))
             /\ now >= ws.wake
             /\ WorkerBecomes(w, Sleeping(ws, ws.stage + 1, now))
    /\ UNCHANGED <<container, storage, transport_mean, process_instance, now, njobs>>

\* the stages of a handler are over: it writes, if it is one that writes,
\* and builds its output
WakeAndFinish ==
    /\ \E w \in Workers :
          LET ws == call.worker[w]
              target == WriteTarget(CurrentDb, ws.before)
              upd == CASE ws.kind = "storage" ->
                            update_storage_status(target, ws.variables["containerId"],
                                                  storage_status_written,
                                                  ws.fault # "write")
                       [] ws.kind = "truck_checkin" ->
                            update_transport_timestamps(target,
                                                        ws.variables["transportationId"],
                                                        ws.timestamp, None,
                                                        ws.fault # "write")
                       [] ws.kind = "truck_checkout" ->
                            update_transport_timestamps(target,
                                                        ws.variables["transportationId"],
                                                        None, ws.timestamp,
                                                        ws.fault # "write")
                       [] OTHER -> [db |-> CurrentDb, success |-> TRUE]
              written == IF ws.kind \in ReadOnlyKinds THEN ws
                         ELSE [ws EXCEPT
                                  !.conns = connection_bracket(@),
                                  !.events = @ \o <<StoreCall(
                                      IF ws.kind = "storage" THEN "update_storage_status"
                                      ELSE "update_transport_timestamps")>>]
              result == CASE ws.kind = "crane_loading" ->
                               crane_loading_result(ws.variables, NowString(now))
                          [] ws.kind = "crane_unloading" ->
                               crane_unloading_result(ws.variables, NowString(now))
                          [] ws.kind = "weighing" ->
                               IF ws.container_data.weight = <<>> THEN EmptyDict
                               ELSE weighing_result(ws.variables,
                                                    ws.container_data.weight[1],
                                                    NowString(now))
                          [] ws.kind = "storage" ->
                               storage_result(ws.variables, storage_status_written,
                                              ws.container_data.storage_id,
                                              NowString(now))
                          [] ws.kind = "truck_checkin" ->
                               truck_checkin_result(ws.variables, ws.timestamp)
                          [] ws.kind = "truck_checkout" ->
                               truck_checkout_result(ws.variables, ws.timestamp)
          IN /\ ws.pc = "asleep"
             /\ StagesOver(ws, now)
             /\ container' = upd.db.container
             /\ storage' = upd.db.storage
             /\ transport_mean' = upd.db.transport_mean
             /\ WorkerBecomes(w,
                   IF ws.kind = "weighing" /\ ws.container_data.weight = <<>>
                   THEN [written EXCEPT !.pc = "done", !.status = "raised",
                                        !.error = "TypeError"]
                   ELSE [written EXCEPT
                            !.pc = IF ws.kind = "storage" /\ ws.key # 0
                                   THEN "completing" ELSE "done",
                            !.status = "returned", !.result = result])
    /\ UNCHANGED <<process_instance, now, njobs>>

\* the completion update reads the description of its key and, when there
\* is one, takes its end_date from the clock
SelectDescription ==
    /\ \E w \in Workers :
          LET ws == call.worker[w]
              called == [ws EXCEPT
                            !.events = @ \o <<StoreCall("update_process_instance_completion")>>]
          IN /\ ws.pc = "completing"
             /\ WorkerBecomes(w,
                   IF ws.fault = "completion"
                   THEN [called EXCEPT !.pc = "done",
                                       !.conns = connection_bracket(@),
                                       !.status = IF ws.kind = "completion"
                                                  THEN "failed" ELSE @]
                   ELSE [called EXCEPT
                            !.pc = "selected",
                            !.conns = get_connection(@),
                            !.existing = IF ws.key \in DOMAIN process_instance
                                         THEN <<process_instance[ws.key]>> ELSE <<>>,
                            !.end_date = IF ws.key \in DOMAIN process_instance
                                         THEN NowString(now) ELSE @])
    /\ UNCHANGED <<container, storage, transport_mean, process_instance, now, njobs>>

\* the completion update writes the description it read, with the suffix
\* it built from it
UpdateDescription ==
    /\ \E w \in Workers :
          LET ws == call.worker[w]
          IN /\ ws.pc = "selected"
             /\ process_instance' =
                   IF ws.existing # <<>>
                   THEN description_update(process_instance, ws.key, ws.existing[1],
                                           <<Part("Ended", ws.end_date),
                                             Part("Status", "completed")>>)
                   ELSE process_instance
             /\ WorkerBecomes(w,
                   [ws EXCEPT !.pc = "done",
                              !.conns = return_connection(@),
                              !.status = IF ws.kind = "completion" THEN "returned" ELSE @])
    /\ UNCHANGED <<container, storage, transport_mean, now, njobs>>

\* half a second passes while a worker is in a time.sleep, whatever the
\* other worker is doing; a time.sleep returns when its time is over
TimePasses ==
    /\ \E w \in Workers : call.worker[w].pc = "asleep"
    /\ \A w \in Workers :
          call.worker[w].pc = "asleep" => call.worker[w].wake > now
    /\ now' = now + 1
    /\ UNCHANGED <<container, storage, transport_mean, process_instance, njobs, call>>

WorkersNext ==
    \/ BeginJob
    \/ ReadContainer
    \/ SleepReturns
    \/ WakeAndFinish
    \/ SelectDescription
    \/ UpdateDescription
    \/ TimePasses

SpecWorkers == WorkersInit /\ [][WorkersNext]_vars

----------------------------------------------------------------------------
(* Properties of concurrent workers, checked under SpecWorkers *)

\* worker w has finished a completion update that found a description
CompletedOn(w) ==
    /\ call.worker[w].pc = "done"
    /\ call.worker[w].existing # <<>>

\* two workers have finished completion updates of one key that both read
\* the same description
ReadTheSame(v, w) ==
    /\ v # w
    /\ CompletedOn(v)
    /\ CompletedOn(w)
    /\ call.worker[v].key = call.worker[w].key
    /\ call.worker[v].existing = call.worker[w].existing

\* C23: when two completion updates of one process key, in different
\* workers, both read the same description, the description they leave is
\* the one they read with a single completion suffix: one of the two
\* updates is lost
C23_ConcurrentCompletionLosesUpdate ==
    \A v, w \in Workers :
        ReadTheSame(v, w) =>
            LET read == call.worker[w].existing[1]
                left == process_instance[call.worker[w].key]
            IN /\ Len(left) = Len(read) + 2
               /\ SubSeq(left, 1, Len(read)) = read
               /\ left[Len(read) + 1] \in
                      {Part("Ended", call.worker[x].end_date) : x \in {v, w}}
               /\ left[Len(read) + 2] = Part("Status", "completed")

\* C1: no step of a job, whatever the other worker is doing, takes a
\* storage row from 'complete' back to 'incomplete'; a step removes no
\* storage row, and a status a step changes becomes 'complete'
C1_StorageStatusMonotonic ==
    [][\A sid \in DOMAIN storage :
          /\ sid \in DOMAIN storage'
          /\ storage[sid].storage_status = "complete"
                 => storage'[sid].storage_status = "complete"
          /\ storage'[sid].storage_status # storage[sid].storage_status
                 => storage'[sid].storage_status = "complete"]_vars

\* two storage jobs that began on the same tables, one on the container
\* whose row was complete and one on the container whose row was not, have
\* both written, and both rows are complete
C1_Witness ==
    \E v, w \in Workers :
        /\ v # w
        /\ \A x \in {v, w} :
              /\ call.worker[x].kind = "storage"
              /\ call.worker[x].pc = "done"
              /\ call.worker[x].status = "returned"
              /\ call.worker[x].fault = "none"
        /\ call.worker[v].before = call.worker[w].before
        /\ call.worker[v].variables["containerId"] = "C1001"
        /\ call.worker[w].variables["containerId"] = "C1002"
        /\ call.worker[w].before.storage["S002"].storage_status = "complete"
        /\ call.worker[v].before.storage["S001"].storage_status = "incomplete"
        /\ \A sid \in DOMAIN storage : storage[sid].storage_status = "complete"

\* two completion updates called on their own have run to their end on the
\* same description
C23_Witness ==
    \E v, w \in Workers :
        /\ ReadTheSame(v, w)
        /\ call.worker[v].kind = "completion"
        /\ call.worker[w].kind = "completion"
        /\ Cardinality(PartsLabelled(process_instance[call.worker[w].key], "Ended")) = 1

\* the two workers have each run one handler job to its end, on different
\* containers and different transportation ids
Unrelated(v, w) ==
    /\ v # w
    /\ \A x \in {v, w} :
          /\ call.worker[x].pc = "done"
          /\ call.worker[x].jobs = 1
          /\ call.worker[x].kind # "completion"
    /\ call.worker[v].seq < call.worker[w].seq
    /\ Get(call.worker[v].variables, "containerId", None)
          # Get(call.worker[w].variables, "containerId", None)
    /\ Get(call.worker[v].variables, "transportationId", None)
          # Get(call.worker[w].variables, "transportationId", None)

\* what the job of worker w gives when it runs on the store db without
\* another job, its stages beginning when they began
Alone(w, db) ==
    LET ws == call.worker[w]
    IN HandlerOutcome(ws.kind, ws.variables, db,
                      IF ws.stage = 0 THEN ws.started_at
                      ELSE ws.wake - Duration(SubSeq(StagesFor(ws.kind), 1, ws.stage)),
                      ws.fault, OnlyRow(db, ws.variables))

\* C29: two jobs on different containers and different transportation
\* ids, however their reads and writes interleave, leave the container,
\* storage and transport_mean rows that the two jobs leave when one runs
\* after the other, in either order, and each returns or raises what it
\* does when it runs alone
C29_UnrelatedJobsNeedNoCoordination ==
    \A v, w \in Workers :
        Unrelated(v, w) =>
            LET db == call.worker[v].before
            IN /\ CurrentDb = Alone(w, Alone(v, db).db).db
               /\ CurrentDb = Alone(v, Alone(w, db).db).db
               /\ \A x \in {v, w} :
                     /\ call.worker[x].status = Alone(x, db).status
                     /\ call.worker[x].error = Alone(x, db).error
                     /\ call.worker[x].result = Alone(x, db).result

\* a storage job and a gate job of another container's truck ran at the
\* same time, the second starting before the first wrote, and both wrote
C29_Witness ==
    \E v, w \in Workers :
        /\ Unrelated(v, w)
        /\ call.worker[v].before = call.worker[w].before
        /\ {call.worker[v].kind, call.worker[w].kind} \cap {"storage"} # {}
        /\ {call.worker[v].kind, call.worker[w].kind}
              \cap {"truck_checkin", "truck_checkout"} # {}
        /\ CurrentDb.storage # call.worker[v].before.storage
        /\ CurrentDb.transport_mean # call.worker[v].before.transport_mean

\* the store writes of a handler among the events of a job
WriteEvents(events) ==
    StoreCallsOf(events) \cap {"update_storage_status", "update_transport_timestamps"}

\* C31: a step that changes the container, storage or transport_mean rows
\* is the step of a job whose stages have all completed, and which returns;
\* a job with a stage still pending has issued no write, and a step in
\* which a job raises changes no row and the job has issued no write
C31_WriteOnlyAfterStages ==
    [][/\ tables' # tables =>
             \E w \in Workers :
                /\ call.worker[w].pc = "asleep"
                /\ call.worker[w].stage = Len(StagesFor(call.worker[w].kind))
                /\ now >= call.worker[w].wake
                /\ call'.worker[w].pc \in {"done", "completing"}
                /\ call'.worker[w].status = "returned"
       /\ \A w \in Workers :
             /\ call'.worker[w].pc \in {"validated", "asleep"} =>
                   WriteEvents(call'.worker[w].events) = {}
             /\ WriteEvents(call'.worker[w].events) # {} =>
                   /\ now' >= call'.worker[w].wake
                   /\ Cardinality(StagesOf(call'.worker[w].events))
                         = Len(StagesFor(call'.worker[w].kind))
             /\ (call'.worker[w].status = "raised" /\ call.worker[w].status # "raised") =>
                   /\ tables' = tables
                   /\ WriteEvents(call'.worker[w].events) = {}]_vars

\* a storage job and a gate job have gone through their stages and
\* written, and a job has raised before its stages
C31_Witness ==
    \E v, w \in Workers :
        /\ call.worker[v].pc = "done"
        /\ call.worker[v].kind \in {"storage", "truck_checkin", "truck_checkout"}
        /\ call.worker[v].status = "returned"
        /\ WriteEvents(call.worker[v].events) # {}
        /\ call.worker[v].wake > call.worker[v].started_at
        /\ now >= call.worker[v].wake
        /\ CurrentDb # call.worker[v].before
        /\ call.worker[w].pc = "done"
        /\ call.worker[w].kind \in {"storage", "truck_checkin", "truck_checkout"}
        /\ call.worker[w].status = "raised"

----------------------------------------------------------------------------
(* The sequential starter (flow.py): start_workflows_sequential awaits     *)
(* start_single_workflow for each scenario of its list, and sleeps one     *)
(* second between two scenarios.                                           *)

\* the longest list of scenarios given to the starter
MaxScenarios == 3

\* the scenarios a list can hold: a truck's, a ship's, one without
\* transportationId, one with an empty one, one without containerId
StarterScenarios ==
    {[containerId |-> "C1001", transportationId |-> "truck101", operationType |-> "loading"],
     [containerId |-> "C1002", transportationId |-> "ship9109", operationType |-> "unloading"],
     [containerId |-> "C1002", operationType |-> "unloading"],
     [containerId |-> "C1001", transportationId |-> "", operationType |-> "loading"],
     [transportationId |-> "truck202", operationType |-> "loading"]}

ScenarioLists ==
    UNION {[1..n -> StarterScenarios] : n \in 0..MaxScenarios}

\* start_single_workflow gets as far as run_process: transportationId is
\* there and truthy, and the variables the log lines index are there
ReachesRunProcess(variables) ==
    /\ "transportationId" \in DOMAIN variables
    /\ Truthy(variables["transportationId"])
    /\ "containerId" \in DOMAIN variables
    /\ "operationType" \in DOMAIN variables

\* faulty variant: the starter returns at the first start that fails
after_start_stop_on_failure(result, i, scenarios) ==
    IF ~result THEN "returned"
    ELSE IF i < Len(scenarios) THEN "sleep" ELSE "loop"

\* where the loop goes after the start of scenario i:
\* `if i < len(scenarios): await asyncio.sleep(1)`
after_start(result, i, scenarios) ==
    IF i < Len(scenarios) THEN "sleep" ELSE "loop"

\* the counters after a start that gave `result`
Counted(c, result) ==
    IF result THEN [c EXCEPT !.successful = @ + 1]
    ELSE [c EXCEPT !.failed = @ + 1]

StarterInit ==
    /\ container = SeedContainers
    /\ storage = EmptyDict
    /\ transport_mean = EmptyDict
    /\ process_instance = EmptyDict
    /\ now = 0
    /\ njobs = 0
    /\ \E scenarios \in ScenarioLists :
          call = [status |-> "starter", pc |-> "loop", scenarios |-> scenarios,
                  i |-> 0, successful |-> 0, failed |-> 0, attempts |-> <<>>]

\* the loop takes the next scenario and calls start_single_workflow, which
\* returns False at once or sends the start request and awaits it
StartSingleWorkflow ==
    /\ call.status = "starter"
    /\ call.pc = "loop"
    /\ call.i < Len(call.scenarios)
    /\ LET i == call.i + 1
           variables == call.scenarios[i]
           attempt == [index |-> i, variables |-> variables,
                       requested |-> ReachesRunProcess(variables),
                       finished |-> ~ReachesRunProcess(variables),
                       result |-> FALSE]
           taken == [call EXCEPT !.i = i, !.attempts = Append(@, attempt)]
       IN call' = IF ReachesRunProcess(variables)
                  THEN [taken EXCEPT !.pc = "request"]
                  ELSE [Counted(taken, FALSE) EXCEPT
                           !.pc = after_start(FALSE, i, call.scenarios)]
    /\ UNCHANGED <<container, storage, transport_mean, process_instance, now, njobs>>

\* run_process returns, or raises and start_single_workflow returns False
RunProcessFinishes ==
    /\ call.status = "starter"
    /\ call.pc = "request"
    /\ \E result \in BOOLEAN :
          call' = [Counted(call, result) EXCEPT
                      !.attempts[call.i].finished = TRUE,
                      !.attempts[call.i].result = result,
                      !.pc = after_start(result, call.i, call.scenarios)]
    /\ UNCHANGED <<container, storage, transport_mean, process_instance, now, njobs>>

\* asyncio.sleep(1) between two scenarios
SleepBetweenStarts ==
    /\ call.status = "starter"
    /\ call.pc = "sleep"
    /\ call' = [call EXCEPT !.pc = "loop"]
    /\ now' = now + 2
    /\ UNCHANGED <<container, storage, transport_mean, process_instance, njobs>>

\* the loop is over: the summary is logged and the starter returns
LogSummary ==
    /\ call.status = "starter"
    /\ call.pc = "loop"
    /\ call.i = Len(call.scenarios)
    /\ call' = [call EXCEPT !.pc = "returned"]
    /\ UNCHANGED <<container, storage, transport_mean, process_instance, now, njobs>>

StarterNext ==
    \/ StartSingleWorkflow
    \/ RunProcessFinishes
    \/ SleepBetweenStarts
    \/ LogSummary

\* the event loop runs the starter's coroutine whenever it can go on, and
\* a start request ends, by an answer or by an error
SpecStarter == StarterInit /\ [][StarterNext]_vars /\ WF_vars(StarterNext)

\* the starts made so far are of the first scenarios of the list, one each
\* and in the order of the list, and only the last can be unfinished
StartsInOrder ==
    /\ Len(call.attempts) = call.i
    /\ call.i <= Len(call.scenarios)
    /\ \A k \in 1..Len(call.attempts) :
          /\ call.attempts[k].index = k
          /\ call.attempts[k].variables = call.scenarios[k]
          /\ k < Len(call.attempts) => call.attempts[k].finished
    /\ call.pc # "request" => \A k \in 1..Len(call.attempts) : call.attempts[k].finished
    /\ call.successful =
          Cardinality({k \in 1..Len(call.attempts) :
                          call.attempts[k].finished /\ call.attempts[k].result})
    /\ call.failed =
          Cardinality({k \in 1..Len(call.attempts) :
                          call.attempts[k].finished /\ ~call.attempts[k].result})

\* the starter has returned with every scenario counted once
StarterDone ==
    /\ call.pc = "returned"
    /\ call.i = Len(call.scenarios)
    /\ call.successful + call.failed = Len(call.scenarios)

\* C30: the sequential starter starts the scenarios one at a time in the
\* order of the list, a start being made only when the one before it has
\* finished, failed or not; it returns, and has then attempted every
\* scenario once, with successful + failed the length of the list
C30_SequentialStarter ==
    /\ [](StartsInOrder /\ (call.pc = "returned" => StarterDone))
    /\ <>StarterDone

\* the starter has returned from a list of MaxScenarios scenarios whose
\* first start failed at the engine and whose last succeeded
C30_Witness ==
    /\ StarterDone
    /\ Len(call.scenarios) >= 3
    /\ call.attempts[1].requested
    /\ ~call.attempts[1].result
    /\ call.attempts[Len(call.attempts)].result
    /\ call.failed >= 1
    /\ call.successful >= 1

----------------------------------------------------------------------------
(* One worker process (flow.py, main.py): the engine's client activates    *)
(* several jobs and makes a coroutine of the registered task for each; the *)
(* event loop of the process runs one coroutine at a time and can go over  *)
(* to another one only where the running one awaits.                       *)

\* the coroutines of the activated jobs
Coroutines == {1, 2}

\* the jobs the process is given: weighing, storage and gate jobs
LoopJobs ==
    {job \in WorkerJobs :
        /\ job.kind \in {"weighing", "storage", "truck_checkin", "truck_checkout"}
        /\ FaultApplies(job)}

\* the statements of a registered task that reach the store or the clock,
\* in the order of the task and of its handler
TaskSteps(job) ==
    (IF job.key # 0 THEN <<"insert_process_instance">> ELSE <<>>)
    \o <<"validate">>
    \o (CASE job.kind = "weighing" -> <<"get_container", "stages", "result">>
          [] job.kind = "storage" ->
                <<"get_container", "stages", "update_storage_status">>
          [] OTHER -> <<"stages", "update_transport_timestamps">>)
    \o (IF job.kind = "storage" /\ job.key # 0
        THEN <<"update_process_instance_completion">> ELSE <<>>)

\* faulty variant: the stages are awaited (asyncio.sleep), so the loop can
\* run another coroutine meanwhile
Awaits_in_stages(job, step) == step = "stages"

\* the statement is an await: no statement of a registered task is
Awaits(job, step) == FALSE

NotStarted(job) ==
    [job |-> job, pc |-> 1, status |-> "none", error |-> "", result |-> EmptyDict,
     container_data |-> NoneData, timestamp |-> "", started_at |-> 0,
     before |-> EmptyDict]

LoopInit ==
    /\ container =
          [c \in {"C1001", "C1002"} |->
              IF c = "C1001" THEN [operation_type |-> "loading", weight |-> <<12000>>]
              ELSE [operation_type |-> "unloading", weight |-> <<35000>>]]
    /\ storage =
          [sid \in {"S001", "S002"} |->
              [container_id |-> IF sid = "S001" THEN "C1001" ELSE "C1002",
               storage_status |-> "incomplete"]]
    /\ transport_mean =
          [tid \in {"truck101", "truck202"} |->
              [container_id |-> IF tid = "truck101" THEN "C1001" ELSE "C1002",
               storage_id |-> IF tid = "truck101" THEN "S001" ELSE "S002",
               check_in |-> <<>>, check_out |-> <<>>]]
    /\ process_instance = EmptyDict
    /\ now = 0
    /\ njobs = 0
    /\ \E jobs \in [Coroutines -> LoopJobs] :
          call = [status |-> "loop", running |-> 0,
                  task |-> [j \in Coroutines |-> NotStarted(jobs[j])],
                  log |-> <<>>]

\* coroutine j has run its task to the end
Finished(j) == call.task[j].pc > Len(TaskSteps(call.task[j].job))

\* the task of coroutine j after its next statement, on the store db and
\* the process instances pi at clock t: [task, db, pi, t]
StepOutcome(j, db, pi, t, first) ==
    LET tk == IF call.task[j].pc = 1
              THEN [call.task[j] EXCEPT !.started_at = t, !.before = db]
              ELSE call.task[j]
        job == tk.job
        steps == TaskSteps(job)
        step == steps[tk.pc]
        on == [tk EXCEPT !.pc = @ + 1]
        raised(error) == [tk EXCEPT !.pc = Len(steps) + 1, !.status = "raised",
                                    !.error = error]
        same == [db |-> db, pi |-> pi, t |-> t]
    IN CASE step = "insert_process_instance" ->
              [task |-> on] @@
              [same EXCEPT !.pi = record_start(pi, job.key, job.variables,
                                               "unknown", t, job.fault)]
         [] step = "validate" ->
              [task |-> IF ValidationFor(job.kind, job.variables) # ""
                        THEN raised(ValidationFor(job.kind, job.variables))
                        ELSE IF job.kind = "truck_checkin"
                        THEN [on EXCEPT !.timestamp =
                                 timestamp_or_mint(Get(job.variables, "checkIn", None), t)]
                        ELSE IF job.kind = "truck_checkout"
                        THEN [on EXCEPT !.timestamp =
                                 timestamp_or_mint(Get(job.variables, "checkOut", None), t)]
                        ELSE on] @@ same
         [] step = "get_container" ->
              LET container_data == get_container(db, job.variables["containerId"],
                                                  job.fault # "read", first)
              IN [task |-> IF ~container_data.found THEN raised("Exception")
                           ELSE [on EXCEPT !.container_data = container_data]] @@ same
         [] step = "stages" ->
              [task |-> on] @@
              [same EXCEPT !.t = t + Duration(StagesFor(job.kind))]
         [] step = "result" ->
              [task |-> IF tk.container_data.weight = <<>> THEN raised("TypeError")
                        ELSE [on EXCEPT !.status = "returned",
                                        !.result = weighing_result(
                                            job.variables, tk.container_data.weight[1],
                                            NowString(t))]] @@ same
         [] step = "update_storage_status" ->
              [task |-> [on EXCEPT !.status = "returned",
                                   !.result = storage_result(
                                       job.variables, storage_status_written,
                                       tk.container_data.storage_id, NowString(t))]] @@
              [same EXCEPT !.db = update_storage_status(
                                      db, job.variables["containerId"],
                                      storage_status_written, job.fault # "write").db]
         [] step = "update_transport_timestamps" ->
              [task |-> [on EXCEPT !.status = "returned",
                                   !.result = IF job.kind = "truck_checkin"
                                              THEN truck_checkin_result(job.variables,
                                                                        tk.timestamp)
                                              ELSE truck_checkout_result(job.variables,
                                                                         tk.timestamp)]] @@
              [same EXCEPT !.db = update_transport_timestamps(
                                      db, job.variables["transportationId"],
                                      IF job.kind = "truck_checkin" THEN tk.timestamp
                                      ELSE None,
                                      IF job.kind = "truck_checkin" THEN None
                                      ELSE tk.timestamp,
                                      job.fault # "write").db]
         [] step = "update_process_instance_completion" ->
              [task |-> on] @@
              [same EXCEPT !.pi = update_process_instance_completion(
                                      pi, job.key, "completed", t, TRUE).pi]

\* the event loop runs the next statement of a coroutine: of the one that
\* is running, or of any unfinished one when none is; the coroutine gives
\* the loop back when it awaits or ends
RunCoroutine ==
    /\ call.status = "loop"
    /\ \E j \in Coroutines :
          /\ ~Finished(j)
          /\ call.running \in {0, j}
          /\ \E first \in FirstRows(CurrentDb,
                                     Get(call.task[j].job.variables, "containerId", None)) :
                LET job == call.task[j].job
                    step == TaskSteps(job)[call.task[j].pc]
                    out == StepOutcome(j, CurrentDb, process_instance, now, first)
                IN /\ container' = out.db.container
                   /\ storage' = out.db.storage
                   /\ transport_mean' = out.db.transport_mean
                   /\ process_instance' = out.pi
                   /\ now' = out.t
                   /\ call' = [call EXCEPT
                                  !.task[j] = out.task,
                                  !.log = Append(@, [coroutine |-> j, step |-> step]),
                                  !.running =
                                      IF out.task.pc > Len(TaskSteps(job))
                                         \/ Awaits(job, step)
                                      THEN 0 ELSE j]
    /\ UNCHANGED njobs

SpecLoop == LoopInit /\ [][RunCoroutine]_vars

----------------------------------------------------------------------------
(* The connection pool of one process (config/database.py): pool says    *)
(* whether connection_pool has been made, conns is the number of its      *)
(* connections checked out.  get_connection raises when the pool is not    *)
(* initialised, when all max_conn connections are out, and when the pool   *)
(* is closed or cannot open the connection it needs.  A store operation    *)
(* of a job runs in three steps: `conn = get_connection()`, its            *)
(* statements, and its `finally`.                                          *)

\* the most calls made in one process
MaxProbes == 12

\* the store operations a job uses
StoreOperations ==
    {"insert_process_instance", "update_process_instance_completion",
     "get_container", "update_storage_status", "update_transport_timestamps"}

\* initialize_connection_pool(): ok = FALSE: SimpleConnectionPool raises,
\* the global keeps what it had and the exception is raised again.
\* [pool, conns, result]
initialize_connection_pool(pool, conns, ok) ==
    IF ok
    THEN \* a new pool, none of its connections checked out
         [pool |-> TRUE, conns |-> 0, result |-> TRUE]
    ELSE [pool |-> pool, conns |-> conns, result |-> FALSE]

\* test_connection on a pool with conns connections out; conn_ok = FALSE:
\* get_connection raises; probe_ok = FALSE: a statement of the probe
\* raises.  [conns, result]
test_connection(conns, conn_ok, probe_ok) ==
    IF conns >= max_conn \/ ~conn_ok
    THEN \* get_connection raises: nothing was taken
         [conns |-> conns, result |-> FALSE]
    ELSE IF probe_ok
    THEN [conns |-> return_connection(get_connection(conns)), result |-> TRUE]
    ELSE \* the except branch returns False without return_connection
         [conns |-> get_connection(conns), result |-> FALSE]

PoolInit ==
    /\ container = SeedContainers
    /\ storage = EmptyDict
    /\ transport_mean = EmptyDict
    /\ process_instance = EmptyDict
    /\ now = 0
    /\ njobs = 0
    /\ call = [status |-> "pool", pool |-> FALSE, conns |-> 0, calls |-> 0,
               pc |-> "idle", op |-> "none", before |-> 0, took |-> FALSE,
               last |-> "none", result |-> TRUE,
               succeeded |-> 0, failed |-> 0, probe_failures |-> 0]

\* the process after the call named has ended with the result given
CallEnded(c, name, result) ==
    [c EXCEPT !.pc = "idle", !.calls = @ + 1, !.last = name,
              !.result = result,
              !.succeeded = IF result THEN @ + 1 ELSE @,
              !.failed = IF result THEN @ ELSE @ + 1]

InitializeConnectionPool ==
    /\ call.status = "pool"
    /\ call.pc = "idle"
    /\ call.calls < MaxProbes
    /\ \E ok \in BOOLEAN :
          LET r == initialize_connection_pool(call.pool, call.conns, ok)
          IN call' = CallEnded([call EXCEPT !.pool = r.pool, !.conns = r.conns,
                                        !.probe_failures = IF ok THEN 0 ELSE @],
                           "initialize_connection_pool", r.result)
    /\ UNCHANGED <<container, storage, transport_mean, process_instance, now, njobs>>

TestConnection ==
    /\ call.status = "pool"
    /\ call.pc = "idle"
    /\ call.calls < MaxProbes
    /\ \E conn_ok, probe_ok \in BOOLEAN :
          LET r == test_connection(call.conns, conn_ok /\ call.pool, probe_ok)
          IN call' = CallEnded([call EXCEPT !.conns = r.conns,
                                        !.probe_failures =
                                            IF r.conns > call.conns THEN @ + 1 ELSE @],
                           "test_connection", r.result)
    /\ UNCHANGED <<container, storage, transport_mean, process_instance, now, njobs>>

\* `conn = get_connection()` of a store operation: when it raises, conn is
\* still None, the except branch has nothing to roll back and the finally
\* nothing to return
TakeConnection ==
    /\ call.status = "pool"
    /\ call.pc = "idle"
    /\ call.calls < MaxProbes
    /\ \E op \in StoreOperations, conn_ok \in BOOLEAN :
          LET begun == [call EXCEPT !.op = op, !.before = call.conns]
          IN call' = IF ~call.pool \/ call.conns >= max_conn \/ ~conn_ok
                     THEN CallEnded([begun EXCEPT !.took = FALSE], op, FALSE)
                     ELSE [begun EXCEPT !.pc = "holding", !.took = TRUE,
                                        !.conns = get_connection(@)]
    /\ UNCHANGED <<container, storage, transport_mean, process_instance, now, njobs>>

\* the statements of a store operation: they end with its return value, or
\* raise into its except branch, which rolls back and returns False
RunStatements ==
    /\ call.status = "pool"
    /\ call.pc = "holding"
    /\ \E ok \in BOOLEAN :
          call' = [call EXCEPT !.pc = "finally", !.result = ok]
    /\ UNCHANGED <<container, storage, transport_mean, process_instance, now, njobs>>

\* `finally: if conn: return_connection(conn)` of a store operation
ReturnInFinally ==
    /\ call.status = "pool"
    /\ call.pc = "finally"
    /\ call' = CallEnded([call EXCEPT !.conns = return_connection(@)],
                     call.op, call.result)
    /\ UNCHANGED <<container, storage, transport_mean, process_instance, now, njobs>>

PoolNext ==
    \/ InitializeConnectionPool
    \/ TestConnection
    \/ TakeConnection
    \/ RunStatements
    \/ ReturnInFinally

SpecPool == PoolInit /\ [][PoolNext]_vars

\* C28: a store operation of a job holds one connection of the pool while
\* it runs, never more than max_conn are out, and when it has ended, with
\* its return value, a failed statement or a failed get_connection, the
\* connections out are those that were out before it: none, in a pool on
\* which no test_connection probe has failed
C28_ConnectionsReturned ==
    call.status = "pool" =>
        /\ call.conns \in 0..max_conn
        /\ call.pc \in {"holding", "finally"} => call.conns = call.before + 1
        /\ (call.pc = "idle" /\ call.last \in StoreOperations) =>
               call.conns = call.before
        /\ (call.pc = "idle" /\ call.probe_failures = 0) => call.conns = 0

\* store operations have ended on an initialised pool, the last after a
\* statement of it raised while it held a connection, an earlier call with
\* its return value, and no connection is out
C28_Witness ==
    /\ call.status = "pool"
    /\ call.pool
    /\ call.pc = "idle"
    /\ call.last \in StoreOperations
    /\ call.took
    /\ ~call.result
    /\ call.succeeded >= 2
    /\ call.probe_failures = 0
    /\ call.conns = 0

\* C39: after every call of test_connection, failed or not, no connection
\* of the pool is checked out: all max_conn are available
C39_TestConnectionReturnsConnection ==
    (call.status = "pool" /\ call.last = "test_connection") => call.conns = 0

----------------------------------------------------------------------------
(* Scenario reconstruction (flow.py, test.py, start_workflow.py): the     *)
(* variable sets workflows are started with, read from the store.          *)

\* the place of an identifier of the model in ORDER BY's ascending order
IdRank(id) ==
    CASE id = "ship9109" -> 1
      [] id = "truck101" -> 2
      [] id = "truck202" -> 3
      [] OTHER -> 0

\* the identifiers of S in ascending order
RECURSIVE SortedIds(_)
SortedIds(S) ==
    IF S = {} THEN <<>>
    ELSE LET least == CHOOSE x \in S : \A y \in S : IdRank(x) <= IdRank(y)
         IN <<least>> \o SortedIds(S \ {least})

\* the transport rows that JOIN container ON container_id and JOIN storage
\* ON storage_id keep
JoinedIds(db) ==
    {tid \in DOMAIN db.transport_mean :
        /\ db.transport_mean[tid].container_id \in DOMAIN db.container
        /\ db.transport_mean[tid].storage_id \in DOMAIN db.storage}

\* the row the query selects for transport row tid
JoinedRow(db, tid) ==
    LET t == db.transport_mean[tid]
    IN [container_id |-> t.container_id,
        operation_type |-> db.container[t.container_id].operation_type,
        weight |-> db.container[t.container_id].weight,
        transportation_id |-> tid,
        check_in |-> t.check_in,
        check_out |-> t.check_out,
        storage_status |-> db.storage[t.storage_id].storage_status]

\* cur.fetchall(): the joined rows, ORDER BY transportation_id, container_id
QueryRows(db) ==
    LET ids == SortedIds(JoinedIds(db))
    IN [i \in 1..Len(ids) |-> JoinedRow(db, ids[i])]

\* faulty variant: only the check-in of a truck is looked at
TruckIncomplete_checkin_only(row) ==
    /\ StartsWith(row.transportation_id, "truck")
    /\ row.check_in = <<>>

\* the row of a truck with `not row['check_in'] or not row['check_out']`,
\* which the loop skips
TruckIncomplete(row) ==
    /\ StartsWith(row.transportation_id, "truck")
    /\ (row.check_in = <<>> \/ row.check_out = <<>>)

\* building the scenario of the row raises: float(None), None.strftime
ConversionFails(row) ==
    \/ row.weight = <<>>
    \/ /\ StartsWith(row.transportation_id, "truck")
       /\ (row.check_in = <<>> \/ row.check_out = <<>>)

\* faulty variant: every row that has its two timestamps gets them into
\* its scenario
scenario_of_stored_timestamps(row) ==
    DictMerge(
        [containerId |-> row.container_id,
         transportationId |-> row.transportation_id,
         operationType |-> row.operation_type,
         weight |-> row.weight[1],
         storageStatus |-> row.storage_status],
        IF row.check_in # <<>> /\ row.check_out # <<>>
        THEN [checkIn |-> Strftime(row.check_in[1]),
              checkOut |-> Strftime(row.check_out[1])]
        ELSE EmptyDict)

\* the scenario of a row; float() of the weights of the model is the same
\* number, trucks get their two timestamps formatted
scenario_of(row) ==
    DictMerge(
        [containerId |-> row.container_id,
         transportationId |-> row.transportation_id,
         operationType |-> row.operation_type,
         weight |-> row.weight[1],
         storageStatus |-> row.storage_status],
        IF StartsWith(row.transportation_id, "truck")
        THEN [checkIn |-> Strftime(row.check_in[1]),
              checkOut |-> Strftime(row.check_out[1])]
        ELSE EmptyDict)

\* the loop over the rows: [failed, scenarios]; an exception anywhere in
\* the try block loses the scenarios built so far
build_scenarios(db, ok) ==
    LET kept == SelectSeq(QueryRows(db), LAMBDA row : ~TruckIncomplete(row))
    IN IF ~ok \/ (\E i \in 1..Len(kept) : ConversionFails(kept[i]))
       THEN [failed |-> TRUE, scenarios |-> <<>>]
       ELSE [failed |-> FALSE,
             scenarios |-> [i \in 1..Len(kept) |-> scenario_of(kept[i])]]

\* PortManagementSystem.fetch_workflow_scenarios of flow.py
fetch_workflow_scenarios(db, ok) == build_scenarios(db, ok).scenarios

\* the body of fetch_workflow_scenarios of start_workflow.py, which ends
\* with `return [scenarios[0]]`; the IndexError of an empty list is caught
\* like any other. No run of start_workflow.py calls it (StartWorkflowRun)
start_workflow_fetch_workflow_scenarios(db, ok) ==
    LET built == build_scenarios(db, ok)
    IN IF built.failed \/ built.scenarios = <<>> THEN <<>>
       ELSE <<built.scenarios[1]>>

\* fetch_workflow_scenarios of test.py: the same query and loop; str() and
\* int() of the values of the model are the values themselves
test_fetch_workflow_scenarios(db, ok) == build_scenarios(db, ok).scenarios

\* the stores scenarios are read from: C1001 on truck101, C1002 (absent,
\* weighed or without a weight) on ship9109 and truck202, each transport
\* row absent or with some of its timestamps, the storage row of C1001
\* there or not
FetchStores ==
    {Db([c \in {"C1001"} \cup c2 |->
            IF c = "C1001" THEN [operation_type |-> "loading", weight |-> <<12000>>]
            ELSE [operation_type |-> "unloading", weight |-> w]],
        [sid \in s1 \cup {"S002"} |->
            IF sid = "S001" THEN [container_id |-> "C1001", storage_status |-> "complete"]
            ELSE [container_id |-> "C1002", storage_status |-> "incomplete"]],
        [tid \in (DOMAIN t1) \cup (DOMAIN t2) \cup (DOMAIN t3) |->
            IF tid = "truck101"
            THEN [container_id |-> "C1001", storage_id |-> "S001",
                  check_in |-> t1[tid][1], check_out |-> t1[tid][2]]
            ELSE IF tid = "truck202"
            THEN [container_id |-> "C1002", storage_id |-> "S002",
                  check_in |-> t2[tid][1], check_out |-> t2[tid][2]]
            ELSE [container_id |-> "C1002", storage_id |-> "S002",
                  check_in |-> t3[tid][1], check_out |-> t3[tid][2]]]) :
      c2 \in {{}, {"C1002"}}, w \in {<<35000>>, <<>>}, s1 \in {{}, {"S001"}},
      t1 \in {EmptyDict} \cup {[tid \in {"truck101"} |-> ts] :
                 ts \in {<<<<>>, <<>>>>, <<<<0>>, <<>>>>, <<<<0>>, <<1>>>>}},
      t2 \in {EmptyDict} \cup {[tid \in {"truck202"} |-> ts] :
                 ts \in {<<<<>>, <<1>>>>, <<<<5>>, <<6>>>>}},
      t3 \in {EmptyDict} \cup {[tid \in {"ship9109"} |-> ts] :
                 ts \in {<<<<>>, <<>>>>, <<<<0>>, <<1>>>>}}}

FetchInit ==
    /\ \E db \in FetchStores :
          /\ container = db.container
          /\ storage = db.storage
          /\ transport_mean = db.transport_mean
    /\ process_instance = EmptyDict
    /\ now = 0
    /\ njobs = 0
    /\ call = NoCall

\* a starter has read the scenarios; the store is only read
Fetched(module, ok, scenarios) ==
    /\ call' = [kind |-> "fetch_workflow_scenarios", module |-> module,
                fault |-> IF ok THEN "none" ELSE "query",
                status |-> "fetched", scenarios |-> scenarios,
                before |-> CurrentDb]
    /\ njobs' = njobs + 1
    /\ UNCHANGED <<container, storage, transport_mean, process_instance, now>>

FetchScenarios ==
    /\ njobs < MaxJobs
    /\ call.status = "none"
    /\ \E ok \in BOOLEAN :
          Fetched("flow", ok, fetch_workflow_scenarios(CurrentDb, ok))

\* production_mode of test.py reads its scenarios
TestFetchScenarios ==
    /\ njobs < MaxJobs
    /\ call.status = "none"
    /\ \E ok \in BOOLEAN :
          Fetched("test", ok, test_fetch_workflow_scenarios(CurrentDb, ok))

\* python start_workflow.py: `logging.getLogger(_name_)` at the top of the
\* module raises NameError before a function is defined; main() is never
\* entered, nothing is read and no scenario is returned
StartWorkflowRun ==
    /\ njobs < MaxJobs
    /\ call.status = "none"
    /\ call' = [kind |-> "fetch_workflow_scenarios", module |-> "start_workflow",
                fault |-> "none", status |-> "raised", error |-> "NameError",
                scenarios |-> <<>>, before |-> CurrentDb]
    /\ njobs' = njobs + 1
    /\ UNCHANGED <<container, storage, transport_mean, process_instance, now>>

FetchNext ==
    \/ FetchScenarios
    \/ TestFetchScenarios
    \/ StartWorkflowRun
    \/ JobReported

SpecFetch == FetchInit /\ [][FetchNext]_vars

\* the transport rows a scenario is due for: joined to a container and a
\* storage row, and not a truck with a timestamp missing
Qualifying ==
    {tid \in DOMAIN transport_mean :
        /\ transport_mean[tid].container_id \in DOMAIN container
        /\ transport_mean[tid].storage_id \in DOMAIN storage
        /\ StartsWith(tid, "truck") =>
              (transport_mean[tid].check_in # <<>> /\ transport_mean[tid].check_out # <<>>)}

\* one truck with only its check_in and one ship without timestamps, each
\* with its container, weighed, and its storage row
TruckInShipWaiting ==
    /\ DOMAIN transport_mean = {"truck101", "ship9109"}
    /\ transport_mean["truck101"].check_in # <<>>
    /\ transport_mean["truck101"].check_out = <<>>
    /\ transport_mean["ship9109"].check_in = <<>>
    /\ transport_mean["ship9109"].check_out = <<>>
    /\ \A tid \in DOMAIN transport_mean :
          /\ transport_mean[tid].container_id \in DOMAIN container
          /\ transport_mean[tid].storage_id \in DOMAIN storage
          /\ container[transport_mean[tid].container_id].weight # <<>>

\* C17: no scenario read from the store is that of a truck without a
\* checkIn or a checkOut, or of a truck whose row lacks one of the two;
\* from the store with the truck that has only checked in and the ship,
\* the store answering, exactly the ship's scenario is read
C17_NoIncompleteTruckScenario ==
    (call.status = "fetched") =>
        /\ \A i \in 1..Len(call.scenarios) :
              LET scenario == call.scenarios[i]
              IN StartsWith(scenario["transportationId"], "truck") =>
                    /\ {"checkIn", "checkOut"} \subseteq DOMAIN scenario
                    /\ ParseTimestamp(scenario["checkIn"]) # <<>>
                    /\ ParseTimestamp(scenario["checkOut"]) # <<>>
                    /\ scenario["transportationId"] \in Qualifying
        /\ (TruckInShipWaiting /\ call.fault = "none") =>
              /\ Len(call.scenarios) = 1
              /\ call.scenarios[1]["transportationId"] = "ship9109"
              /\ call.scenarios[1]["containerId"] = "C1002"

\* the scenarios have been read from the store with the truck that has
\* only checked in and the ship
C17_Witness ==
    /\ call.status = "fetched"
    /\ call.module = "flow"
    /\ call.fault = "none"
    /\ TruckInShipWaiting
    /\ Len(call.scenarios) = 1

----------------------------------------------------------------------------
(* Properties checked as stated, which the code does not have *)

\* C3: a job delivered to a registered task whose variables fail the
\* validation changes no table of the store, process_instance included
C3_ValidationFailureNoSideEffects ==
    (Called /\ call.status = "raised" /\ call.error = "ValueError") =>
        /\ StoreUntouched
        /\ process_instance = call.before_pi

\* C5: the output of every handler that returns carries containerId,
\* transportationId and operationType, none of them None
C5_RoutingNeverNull ==
    (Called /\ call.status = "returned") =>
        \A k \in RoutingVariables :
            k \in DOMAIN call.result /\ call.result[k] # None

\* the scenarios are one for each qualifying transport row of the store
\* and no other, in ascending order of transportation_id
OnePerQualifyingRow(scenarios) ==
    /\ Len(scenarios) = Cardinality(Qualifying)
    /\ {scenarios[i]["transportationId"] : i \in 1..Len(scenarios)} = Qualifying
    /\ \A i \in 1..Len(scenarios) :
          /\ scenarios[i]["containerId"] =
                transport_mean[scenarios[i]["transportationId"]].container_id
          /\ \A j \in 1..Len(scenarios) :
                i < j => IdRank(scenarios[i]["transportationId"])
                            < IdRank(scenarios[j]["transportationId"])

\* C18: from a store that answers and whose joined rows all have a
\* weight, the scenarios read are one for each qualifying transport row
\* and no other, in ascending order of transportation_id, and so are
\* those the function of start_workflow.py makes of the store
C18_OneScenarioPerQualifyingRow ==
    (\A c \in DOMAIN container : container[c].weight # <<>>) =>
        /\ (call.status = "fetched" /\ call.fault = "none") =>
              OnePerQualifyingRow(call.scenarios)
        /\ OnePerQualifyingRow(
              start_workflow_fetch_workflow_scenarios(CurrentDb, TRUE))

\* C22: a job of a process instance whose description has a completion
\* suffix leaves a description that still has one
C22_CompletionSuffixKept ==
    (/\ Called
     /\ call.process_instance_key \in DOMAIN call.before_pi
     /\ PartsLabelled(call.before_pi[call.process_instance_key], "Ended") # {}) =>
        PartsLabelled(process_instance[call.process_instance_key], "Ended") # {}

\* the keys every scenario has
ScenarioKeys ==
    {"containerId", "transportationId", "operationType", "weight", "storageStatus"}

\* C32: every scenario read has the five keys of a scenario, and has
\* checkIn and checkOut, both, when its transportationId starts with
\* "truck", and neither of them otherwise, whatever the row has stored
C32_TimestampKeysForTrucksOnly ==
    call.status = "fetched" =>
        \A i \in 1..Len(call.scenarios) :
            LET scenario == call.scenarios[i]
            IN /\ ScenarioKeys \subseteq DOMAIN scenario
               /\ IF StartsWith(scenario["transportationId"], "truck")
                  THEN DOMAIN scenario = ScenarioKeys \cup {"checkIn", "checkOut"}
                  ELSE DOMAIN scenario = ScenarioKeys

\* the scenarios read are of a truck and of a ship whose row has both
\* timestamps stored
C32_Witness ==
    /\ call.status = "fetched"
    /\ \E i, j \in 1..Len(call.scenarios) :
          /\ StartsWith(call.scenarios[i]["transportationId"], "truck")
          /\ "checkIn" \in DOMAIN call.scenarios[i]
          /\ StartsWith(call.scenarios[j]["transportationId"], "ship")
          /\ transport_mean[call.scenarios[j]["transportationId"]].check_in # <<>>
          /\ transport_mean[call.scenarios[j]["transportationId"]].check_out # <<>>

\* C33: a gate handler that returns mints its timestamp only when the
\* input has no checkIn (checkOut for the check-out); a value that is
\* there, the empty string too, is the one returned
C33_EmptyStringIsProvided ==
    (/\ Called
     /\ call.kind \in {"truck_checkin", "truck_checkout"}
     /\ call.status = "returned") =>
        IF GateKey \in DOMAIN call.variables
        THEN call.result[GateKey] = call.variables[GateKey]
        ELSE call.result[GateKey] = NowString(CallStart)

\* C34: the scenarios read by the standalone starter are, on every store,
\* the sequence that fetch_workflow_scenarios of flow.py reads from it:
\* one scenario for each joined row that passes the truck rule, and the
\* empty list when there is none
C34_StarterFetchesAllScenarios ==
    /\ \A ok \in BOOLEAN :
          start_workflow_fetch_workflow_scenarios(CurrentDb, ok)
             = fetch_workflow_scenarios(CurrentDb, ok)
    /\ (call.status # "none" /\ call.module = "start_workflow") =>
          /\ call.status = "fetched"
          /\ call.scenarios = fetch_workflow_scenarios(CurrentDb, TRUE)

\* a storage job has returned
StorageReturned ==
    /\ Called
    /\ call.kind = "storage"
    /\ call.status = "returned"

\* the store holds 'complete' for the container of the job
HeldComplete ==
    /\ JobStorageRows(CurrentDb) # {}
    /\ \A sid \in JobStorageRows(CurrentDb) : storage[sid].storage_status = "complete"

\* C35 as stated: a storage job that returns storageStatus 'complete'
\* leaves the store with storage_status 'complete' for its container
C35_CompleteReportedOnlyWhenStored ==
    (StorageReturned /\ Get(call.result, "storageStatus", None) = "complete") =>
        HeldComplete

\* the description of the job's instance ends with the completion suffix
\* of the job
CompletionAppended ==
    /\ call.process_instance_key \in DOMAIN process_instance
    /\ LET description == process_instance[call.process_instance_key]
           n == Len(description)
       IN /\ n >= 2
          /\ description[n - 1] = Part("Ended", NowString(now))
          /\ description[n] = Part("Status", "completed")

\* C35 as amended: a storage job that returns reports storageStatus
\* 'complete'.  As a job of a process instance it then calls the
\* completion update, which appends 'Ended: <time>, Status: completed' to
\* the description when the instance has one and the call does not fail,
\* and otherwise leaves the description without it.  The store holds
\* 'complete' for the job's container when the write matched a row and
\* did not fail, and otherwise the storage rows are as they were
C35_CompleteStoredWhenWriteMatched ==
    StorageReturned =>
        /\ Get(call.result, "storageStatus", None) = "complete"
        /\ IF call.process_instance_key = 0
           THEN /\ "update_process_instance_completion" \notin StoreCallsOf(call.events)
                /\ process_instance = call.before_pi
           ELSE /\ "update_process_instance_completion" \in StoreCallsOf(call.events)
                /\ IF /\ call.fault # "completion"
                      /\ call.process_instance_key \in DOMAIN process_instance
                   THEN CompletionAppended
                   ELSE \/ EndedParts(process_instance) = {}
                        \/ process_instance = call.before_pi
        /\ IF WriteMissed THEN storage = call.before.storage ELSE HeldComplete

\* a storage job of an instance has returned 'complete' for a registered
\* container that has no storage row, changed no storage row, and appended
\* its completion suffix
C35_Witness ==
    /\ StorageReturned
    /\ call.fault = "none"
    /\ call.process_instance_key # 0
    /\ call.variables["containerId"] \in DOMAIN call.before.container
    /\ JobStorageRows(call.before) = {}
    /\ call.result["storageStatus"] = "complete"
    /\ storage = call.before.storage
    /\ CompletionAppended

\* coroutine j is in its task: it has run a statement and has not ended
InTask(j) == call.task[j].pc > 1 /\ ~Finished(j)

\* C36: in one worker process at most one job is in its task at a time,
\* the statements of a job run with no statement of another job between
\* them, and a job that has ended has returned or raised what its handler
\* does on the store it found, run from start to end
C36_JobsOfOneWorkerNeverInterleave ==
    /\ \A i, j \in Coroutines : (InTask(i) /\ InTask(j)) => i = j
    /\ \A a, b, c \in 1..Len(call.log) :
          (a < b /\ b < c /\ call.log[a].coroutine = call.log[c].coroutine) =>
              call.log[b].coroutine = call.log[a].coroutine
    /\ \A j \in Coroutines :
          Finished(j) =>
              LET tk == call.task[j]
                  alone == HandlerOutcome(tk.job.kind, tk.job.variables, tk.before,
                                          tk.started_at, tk.job.fault,
                                          OnlyRow(tk.before, tk.job.variables))
              IN /\ tk.status = alone.status
                 /\ tk.error = alone.error
                 /\ tk.result = alone.result

\* two jobs of process instances have ended in one worker, a storage job
\* that went through its stages, wrote and recorded its completion, and
\* another job that went through its stages
C36_Witness ==
    /\ \A j \in Coroutines : Finished(j) /\ call.task[j].status = "returned"
    /\ \E i, j \in Coroutines :
          /\ i # j
          /\ call.task[i].job.kind = "storage"
          /\ call.task[i].job.key # 0
          /\ call.task[j].job.kind # "storage"
          /\ call.task[j].job.key # 0
    /\ \E a \in 1..Len(call.log) :
          call.log[a].step = "update_process_instance_completion"

\* the store before the call without the row of the job's container
BeforeWithoutContainer ==
    LET cid == Get(call.variables, "containerId", None)
        c == call.before.container
    IN [call.before EXCEPT !.container = [x \in (DOMAIN c) \ {cid} |-> c[x]]]

\* C37: a job whose container read fails ends as the same job does, on a
\* store that answers, when the container is not registered: a weighing
\* or storage job that passes the validation raises container-not-found,
\* a crane job that passes it returns, and status, error, output and
\* events are those of the absent container; the store is untouched
C37_FailedReadIsAbsentContainer ==
    (/\ Called
     /\ call.fault = "read"
     /\ call.kind \in {"crane_loading", "crane_unloading", "weighing", "storage"}) =>
        LET absent == HandlerOutcome(call.kind, call.variables, BeforeWithoutContainer,
                                     CallStart, "none",
                                     OnlyRow(BeforeWithoutContainer, call.variables))
        IN /\ call.status = absent.status
           /\ call.error = absent.error
           /\ call.result = absent.result
           /\ call.events = absent.events
           /\ StoreUntouched
           /\ (call.kind \in {"weighing", "storage"}
                  /\ container_validate(call.variables) = "") =>
                 (call.status = "raised" /\ call.error = "Exception")
           /\ (call.kind \in {"crane_loading", "crane_unloading"}
                  /\ crane_validate(call.variables) = "") =>
                 call.status = "returned"

\* the read of a registered container has failed in a weighing job, which
\* raised container-not-found
C37_Witness ==
    /\ Called
    /\ call.fault = "read"
    /\ call.kind = "weighing"
    /\ Get(call.variables, "containerId", None) \in DOMAIN call.before.container
    /\ call.status = "raised"
    /\ call.error = "Exception"

\* the scenarios are one for each qualifying row of the store, or none at
\* all, and none at all only when the query failed, a row could not be
\* converted, or no row qualifies
AllOrNothing(scenarios, ok) ==
    \/ /\ Len(scenarios) = Cardinality(Qualifying)
       /\ {scenarios[i]["transportationId"] : i \in 1..Len(scenarios)} = Qualifying
    \/ /\ scenarios = <<>>
       /\ \/ ~ok
          \/ \E tid \in Qualifying :
                container[transport_mean[tid].container_id].weight = <<>>

\* C38: the scenarios read, and those the function of start_workflow.py
\* makes of the store, are all or nothing, and no read raises
C38_FetchAllOrNothing ==
    /\ call.status # "none" =>
          /\ call.status = "fetched"
          /\ AllOrNothing(call.scenarios, call.fault = "none")
    /\ \A ok \in BOOLEAN :
          AllOrNothing(start_workflow_fetch_workflow_scenarios(CurrentDb, ok), ok)

====
